---- MODULE Spec2Model ----
(***************************************************************************)
(* AnalogVUMeter: the VU DSP engine (VuAudioDsp.cpp) and the capture       *)
(* session that drives it (AudioCapture_linux.cpp, AudioCapture_macos.cpp).*)
(*                                                                         *)
(* Numbers.  The program computes in IEEE float; the model computes in     *)
(* fixed point:                                                            *)
(*   amplitudes  in units of 1/AmpScale of full scale (0.0001),            *)
(*   powers      in units of 1/AmpScale^2,                                 *)
(*   levels      in whole dB,                                              *)
(*   angles      in units of 1/AngleScale of a degree (0.1),               *)
(*   times       in milliseconds,                                          *)
(*   weights     in thousandths.                                           *)
(* Every conversion (sqrt, exp, log10) is computed, with floor rounding.   *)
(***************************************************************************)
EXTENDS Integers, Sequences, FiniteSets, TLC

VARIABLES
    platform,      \* build variant of the capture session: "linux" | "macos"
    state,         \* VuAudioDspState: prevL, prevR, rmsL_smooth, rmsR_smooth, meterAwake
    ballisticsL,   \* VUBallistics (left): the displayed value
    ballisticsR,   \* VUBallistics (right): the displayed value
    outVuL,        \* the engine's output parameter outVuL after the last call
    outVuR,        \* the engine's output parameter outVuR after the last call
    call,          \* what the last step of the engine was given and computed
    refOptions,    \* the VuReferenceOptions the caller passes
    rate,          \* the sample rate of the stream, in Hz
    nCalls,        \* number of buffers processed before the silence
    silenceOnly,   \* from now on only all-zero buffers are fed
    nSilent,       \* number of buffers processed since then, up to SettleCalls
    \* the capture session (AudioCapture)
    running_,      \* std::atomic<bool> running_
    thread_,       \* the audio thread: "none" | "alive" | "finished" (not yet joined)
    cb,            \* where the audio thread is in its buffer callback
    quit,          \* the backend's run loop was told to quit
    mainloop_,     \* a PulseAudio mainloop is held
    context_,      \* PulseAudio context: "none" | "connecting" | "ready" | "failed"
    stream_,       \* capture stream / audio queue: "none" | "ready" | "failed"
    source_,       \* the source the stream was connected to ("" when none)
    lookups,       \* device lookups issued to the backend and not yet answered
    pc,            \* where the caller thread is in start / stop / switchDevice
    op,            \* the operation the caller thread is in, its argument and result
    options_,      \* Options options_
    deviceType_,   \* std::atomic<int> deviceType_
    currentDeviceUID_,
    leftVuDb_,     \* std::atomic<float> leftVuDb_
    rightVuDb_,    \* std::atomic<float> rightVuDb_
    readL,         \* what a reader last got from leftVuDb()
    readR,         \* what a reader last got from rightVuDb()
    errorSurfaced, \* errorOut was set or errorOccurred emitted since the last start
    backendError,  \* the backend reported a failure since the last start
    deviceChanged, \* the deviceChanged signals emitted since the caller's last
                   \* call began: how many, and the last uid
    dspFreed,      \* the session's DSP state was destroyed
    sinceSwitch,   \* "none" | "fresh" (device switched, no buffer since) | "used"
    nOps,          \* number of operations the callers have begun
    other,         \* a second caller thread, not scheduled now: its pc and op
    \* a second run of the engine, on DSP state and ballistics of its own
    twin,          \* its state, ballistics and outputs, and the buffers it is owed
    \* the scale mapper (VUMeterScale)
    table,         \* the VUMeterScaleTable in use: a sequence of <<level, angle>>
    vuDb,          \* the reading last handed to vuToAngleDeg, in dB
    angleDeg,      \* what vuToAngleDeg returned for it
    \* the skins (SkinManager, SkinImporter)
    skinsRoot,     \* the skins root on disk: the skin directories by name
    skins_,        \* SkinManager::skins_: the ids the last scan() listed
    loaded,        \* the LoadedSkin the last loadSkin() returned
    imported,      \* the ImportResult the last importAimpZip() returned
    \* a caller of the engine
    buffer         \* the buffer the caller holds for its calls of the engine

dspVars == <<state, ballisticsL, ballisticsR, outVuL, outVuR, call, refOptions, rate,
             nCalls, silenceOnly, nSilent>>

sessionVars == <<running_, thread_, cb, quit, mainloop_, context_, stream_, source_,
                 lookups, pc, op, options_, deviceType_, currentDeviceUID_, leftVuDb_,
                 rightVuDb_, readL, readR, errorSurfaced, backendError, deviceChanged, dspFreed,
                 sinceSwitch, nOps, other>>

scaleVars == <<table, vuDb, angleDeg>>

twinVars == <<twin>>

skinVars == <<skinsRoot, skins_, loaded, imported>>

givenVars == <<buffer>>

vars == <<platform, dspVars, sessionVars, scaleVars, twinVars, skinVars, givenVars>>

----------------------------------------------------------------------------
(* Units *)

AmpScale == 10000

WeightScale == 1000

ExpScale == 100000

ExpTerms == 16

----------------------------------------------------------------------------
(* Bounds of the model *)

MaxCalls == 2

\* number of operations the caller of a session begins
MaxOps == 2

\* number of silent buffers after which the outputs are looked at
SettleCalls == 10

----------------------------------------------------------------------------
(* Arithmetic *)

Min(a, b) == IF b < a THEN b ELSE a

Max(a, b) == IF a < b THEN b ELSE a

\* the clamp left out
ClampMissing(v, lo, hi) == v

\* only the upper end clamped
ClampUpperOnly(v, lo, hi) == IF hi < v THEN hi ELSE v

\* std::clamp(v, lo, hi)
Clamp(v, lo, hi) == IF v < lo THEN lo ELSE IF hi < v THEN hi ELSE v

\* floor(a * b / d) for 0 <= b <= d, computed without leaving 32 bits
MulDiv(a, b, d) == (a \div d) * b + ((a % d) * b) \div d

RECURSIVE SqrtSearch(_, _, _)
SqrtSearch(n, lo, hi) ==
    IF lo >= hi THEN lo
    ELSE LET mid == (lo + hi + 1) \div 2
         IN  IF mid <= n \div mid THEN SqrtSearch(n, mid, hi)
                                  ELSE SqrtSearch(n, lo, mid - 1)

\* std::sqrt: the largest r with r * r <= n
Sqrt(n) == IF n <= 0 THEN 0 ELSE SqrtSearch(n, 1, Min(n, 46340))

RECURSIVE ExpSeries(_, _, _, _, _)
ExpSeries(num, den, k, term, acc) ==
    IF k > ExpTerms \/ term = 0 THEN acc
    ELSE LET next == (term * num) \div (den * k)
         IN  ExpSeries(num, den, k + 1, next, acc + next)

\* std::exp(-num/den) as a weight in thousandths: 1 / (sum of (num/den)^k / k!)
ExpNeg(num, den) ==
    (WeightScale * ExpScale) \div ExpSeries(num, den, 1, ExpScale, ExpScale)

\* 10^(k/20) for k = 0..19, in units of 1/AmpScale: the 1 dB steps of a decade
DbSteps ==
    <<10000, 11220, 12589, 14125, 15849, 17783, 19953, 22387, 25119, 28184,
      31623, 35481, 39811, 44668, 50119, 56234, 63096, 70795, 79433, 89125>>

RECURSIVE Log10Db(_)
\* 20 * std::log10(x / AmpScale) for x >= 1, rounded down to whole dB
Log10Db(x) ==
    IF x >= 10 * AmpScale THEN 20 + Log10Db(x \div 10)
    ELSE IF x < AmpScale THEN Log10Db(x * 10) - 20
    ELSE Cardinality({k \in 1..20 : DbSteps[k] <= x}) - 1

----------------------------------------------------------------------------
(* VUBallistics: one needle.  First-order exponential response with a     *)
(* time constant that depends on the direction of travel.                 *)

AttackTauMs == 50

ReleaseTauMs == 75

\* VUBallistics::reset(value): the displayed value snaps to value
BallisticsReset(value) == value

\* VUBallistics::process(target, dt): the displayed value after the step,
\* which is also what the call returns
BallisticsProcess(value, target, dt) ==
    LET tau  == IF target > value THEN AttackTauMs ELSE ReleaseTauMs
        coef == WeightScale - ExpNeg(dt, tau)
    IN  value + MulDiv(target - value, coef, WeightScale)

----------------------------------------------------------------------------
(* VuAudioDsp.h *)

\* VuReferenceOptions{}
DefaultReferenceOptions ==
    [referenceDbfs |-> -18, referenceDbfsOverride |-> FALSE, deviceType |-> 0]

\* VuAudioDspState{}
FreshDspState ==
    [prevL |-> 0, prevR |-> 0, rmsL_smooth |-> 0, rmsR_smooth |-> 0,
     meterAwake |-> FALSE]

----------------------------------------------------------------------------
(* VuAudioDsp.cpp: processInterleavedFloatAudioToVuDb *)

\* 0.15f, in hundredths
PreEmphasisPct == 15

\* wakeThreshold = 0.002f
WakeThreshold == 20

\* vuTau = 0.020f
VuTauMs == 20

\* the 50 ms clamp of dt
DtClampMs == 50

\* noiseFloor = 0.001f
NoiseFloor == 10

\* 20 * log10(eps), eps = 1e-12f: eps lies below one unit of amplitude
EpsDb == -240

\* the built-in reference of the microphone mode (-0.0f)
MicrophoneDefaultRefDbfs == 0

\* the built-in reference of the system output mode (-14.0f)
MonitorDefaultRefDbfs == -14

\* the 0.002f of the wake test on the smoothed RMS
AwakeLevel == 20

\* the guard without its test of channels
GuardForgetsChannels(data, frames, channels, sampleRate) ==
    data.null \/ frames = 0 \/ sampleRate <= 0

\* !data || frames == 0 || channels == 0 || sampleRate <= 0.0f
GuardFails(data, frames, channels, sampleRate) ==
    data.null \/ frames = 0 \/ channels = 0 \/ sampleRate <= 0

\* raw + 0.15f * (raw - prev)
PreEmphasis(raw, prev) == raw + (PreEmphasisPct * (raw - prev)) \div 100

\* the right sample of a mono buffer taken to be silence
RawRightSilentMono(data, channels, i, rawL) ==
    IF channels > 1 THEN data.samples[i * channels + 1 + 1] ELSE 0

\* (channels > 1) ? data[i * channels + 1] : rawL
RawRight(data, channels, i, rawL) ==
    IF channels > 1 THEN data.samples[i * channels + 1 + 1] ELSE rawL

RECURSIVE FrameLoop(_, _, _, _, _)
\* the loop over the frames: acc holds prevL, prevR, sumL, sumR
FrameLoop(data, frames, channels, i, acc) ==
    IF i >= frames THEN acc
    ELSE LET rawL == data.samples[i * channels + 0 + 1]
             rawR == RawRight(data, channels, i, rawL)
             l    == PreEmphasis(rawL, acc.prevL)
             r    == PreEmphasis(rawR, acc.prevR)
         IN  FrameLoop(data, frames, channels, i + 1,
                       [prevL |-> rawL, prevR |-> rawR,
                        sumL |-> acc.sumL + l * l, sumR |-> acc.sumR + r * r])

\* std::sqrt(static_cast<float>(sum / frames))
BufferRms(sum, frames) == Sqrt(sum \div frames)

\* a seed taken whatever the level of the buffer
WakeSeedAlways(smooth, rms) == rms * rms

\* a seed never taken
WakeSeedNever(smooth, rms) == smooth

\* if (rms > wakeThreshold) smooth = rms * rms
WakeSeed(smooth, rms) == IF rms > WakeThreshold THEN rms * rms ELSE smooth

\* dt = min(frames / sampleRate, 0.050f), in ms
BufferDt(frames, sampleRate) == Min((frames * 1000) \div sampleRate, DtClampMs)

\* alpha = exp(-dt / vuTau)
Alpha(dt) == ExpNeg(dt, VuTauMs)

\* the smoothing with the buffer's power subtracted:
\* alpha * smooth - (1 - alpha) * (rms * rms)
SmoothSubtracts(alpha, smooth, rms) ==
    MulDiv(smooth, alpha, WeightScale) - MulDiv(rms * rms, WeightScale - alpha, WeightScale)

\* alpha * smooth + (1 - alpha) * (rms * rms), rounded once
Smooth(alpha, smooth, rms) ==
    rms * rms + MulDiv(smooth - rms * rms, alpha, WeightScale)

\* sqrt of the smoothed power, forced to 0 below the noise floor
SmoothedRms(smooth) ==
    LET rms_vu == Sqrt(smooth) IN IF rms_vu < NoiseFloor THEN 0 ELSE rms_vu

\* 20 * log10(rms_vu) with no eps under the logarithm: minus infinity at 0,
\* shown as a level far below any finite one
DbfsNoEps(rms_vu) == IF rms_vu < 1 THEN 100 * EpsDb ELSE Log10Db(rms_vu)

\* 20 * log10(max(rms_vu, eps))
Dbfs(rms_vu) == IF rms_vu < 1 THEN EpsDb ELSE Log10Db(rms_vu)

\* the stored reference level used whether or not the override is set
EffectiveRefAlwaysStored(ref) == ref.referenceDbfs

\* the reference level in effect for the call
EffectiveRefDbfs(ref) ==
    IF ref.referenceDbfsOverride THEN ref.referenceDbfs
    ELSE IF ref.deviceType = 1 THEN MicrophoneDefaultRefDbfs
    ELSE MonitorDefaultRefDbfs

\* the wake test asking for both channels
WakeNeedsBoth(meterAwake, rmsL_vu, rmsR_vu) ==
    ~meterAwake /\ (rmsL_vu > AwakeLevel /\ rmsR_vu > AwakeLevel)

\* the wake test without its one-shot latch
WakeRearmed(meterAwake, rmsL_vu, rmsR_vu) ==
    rmsL_vu > AwakeLevel \/ rmsR_vu > AwakeLevel

\* the wake test latched in a flag of the process (set by the first call
\* ever made) and not in the passed state
WakeOncePerProcess(meterAwake, rmsL_vu, rmsR_vu) ==
    nCalls = 0 /\ (rmsL_vu > AwakeLevel \/ rmsR_vu > AwakeLevel)

\* !state.meterAwake && (rmsL_vu > 0.002f || rmsR_vu > 0.002f)
WakeCondition(meterAwake, rmsL_vu, rmsR_vu) ==
    ~meterAwake /\ (rmsL_vu > AwakeLevel \/ rmsR_vu > AwakeLevel)

\* the early return of the guard: outputs set, nothing else touched
GuardReturn(bL, bR, st, minVu) ==
    [state |-> st, ballisticsL |-> bL, ballisticsR |-> bR,
     outVuL |-> minVu, outVuR |-> minVu,
     ran |-> FALSE, wake |-> FALSE, targetVuL |-> 0, targetVuR |-> 0,
     rmsL_vu |-> 0, rmsR_vu |-> 0]

\* the engine past its guard
EngineBody(data, frames, channels, sampleRate, ref, bL, bR, st, minVu, maxVu) ==
    LET loop == FrameLoop(data, frames, channels, 0,
                          [prevL |-> st.prevL, prevR |-> st.prevR,
                           sumL |-> 0, sumR |-> 0])
        rmsL == BufferRms(loop.sumL, frames)
        rmsR == BufferRms(loop.sumR, frames)
        dt == BufferDt(frames, sampleRate)
        alpha == Alpha(dt)
        rmsL_smooth == Smooth(alpha, WakeSeed(st.rmsL_smooth, rmsL), rmsL)
        rmsR_smooth == Smooth(alpha, WakeSeed(st.rmsR_smooth, rmsR), rmsR)
        rmsL_vu == SmoothedRms(rmsL_smooth)
        rmsR_vu == SmoothedRms(rmsR_smooth)
        effectiveRefDbfs == EffectiveRefDbfs(ref)
        targetVuL == Dbfs(rmsL_vu) - effectiveRefDbfs
        targetVuR == Dbfs(rmsR_vu) - effectiveRefDbfs
        wake == WakeCondition(st.meterAwake, rmsL_vu, rmsR_vu)
        wokenL == IF wake THEN BallisticsReset(targetVuL) ELSE bL
        wokenR == IF wake THEN BallisticsReset(targetVuR) ELSE bR
        vuL == BallisticsProcess(wokenL, targetVuL, dt)
        vuR == BallisticsProcess(wokenR, targetVuR, dt)
    IN  [state |-> [prevL |-> loop.prevL, prevR |-> loop.prevR,
                    rmsL_smooth |-> rmsL_smooth, rmsR_smooth |-> rmsR_smooth,
                    meterAwake |-> st.meterAwake \/ wake],
         ballisticsL |-> vuL, ballisticsR |-> vuR,
         outVuL |-> Clamp(vuL, minVu, maxVu),
         outVuR |-> Clamp(vuR, minVu, maxVu),
         ran |-> TRUE, wake |-> wake,
         targetVuL |-> targetVuL, targetVuR |-> targetVuR,
         rmsL_vu |-> rmsL_vu, rmsR_vu |-> rmsR_vu]

\* one call of the engine: the new state, ballistics and outputs (with what
\* the call computed on the way: ran, wake, targetVu, rms_vu)
processInterleavedFloatAudioToVuDb(data, frames, channels, sampleRate, ref, bL, bR, st, minVu, maxVu) ==
    IF GuardFails(data, frames, channels, sampleRate)
    THEN GuardReturn(bL, bR, st, minVu)
    ELSE EngineBody(data, frames, channels, sampleRate, ref, bL, bR, st,
                    minVu, maxVu)

----------------------------------------------------------------------------
(* The display range each capture session passes as minVu, maxVu *)

\* kAudioFloorVu
LinuxFloorVu == -96

\* kAudioCeilingVu
LinuxCeilingVu == 6

\* kMinVu
MacosFloorVu == -22

\* kMaxVu
MacosCeilingVu == 3

Platforms == {"linux", "macos"}

FloorVu(p) == IF p = "linux" THEN LinuxFloorVu ELSE MacosFloorVu

CeilingVu(p) == IF p = "linux" THEN LinuxCeilingVu ELSE MacosCeilingVu

----------------------------------------------------------------------------
(* VUMeterScale.cpp: the scale mapper *)

\* one degree, in the units of the model
AngleScale == 10

\* a float result: a finite angle, or NaN
Finite(a) == [kind |-> "finite", deg |-> a]

NotANumber == [kind |-> "nan", deg |-> 0]

\* no call made yet
NoAngle == [kind |-> "none", deg |-> 0]

\* builtInDefaultScaleTable()
builtInDefaultScaleTable ==
    <<<<-20, -47 * AngleScale>>, <<-10, -34 * AngleScale>>,
      <<-7, -25 * AngleScale>>, <<-6, -21 * AngleScale>>,
      <<-5, -16 * AngleScale>>, <<-4, -11 * AngleScale>>,
      <<-3, -5 * AngleScale>>, <<-2, 2 * AngleScale>>,
      <<-1, 9 * AngleScale>>, <<0, 18 * AngleScale>>,
      <<1, 27 * AngleScale>>, <<2, 38 * AngleScale>>,
      <<3, 47 * AngleScale>>>>

\* an interpolation that starts from the far end of the segment
InterpolateFromEnd(vu, v0, a0, v1, a1) ==
    IF v1 = v0 THEN NotANumber
    ELSE Finite(a1 - ((vu - v0) * (a1 - a0)) \div (v1 - v0))

\* t = (vuDb - v0) / (v1 - v0); a0 + t * (a1 - a0): with vuDb in [v0, v1], a
\* zero-width segment makes t = 0 / 0
Interpolate(vu, v0, a0, v1, a1) ==
    IF v1 = v0 THEN NotANumber
    ELSE Finite(a0 + ((vu - v0) * (a1 - a0)) \div (v1 - v0))

\* the first test of vuToAngleDeg made after the second
ClampUpperFirst(vu, tbl) ==
    IF vu >= tbl[Len(tbl)][1] THEN "last"
    ELSE IF vu <= tbl[1][1] THEN "first"
    ELSE "inside"

\* clamping tests that leave the end levels themselves to the loop
ClampToRangeStrict(vu, tbl) ==
    IF vu < tbl[1][1] THEN "first"
    ELSE IF vu > tbl[Len(tbl)][1] THEN "last"
    ELSE "inside"

\* the two tests that clamp to the table's range, in their order
ClampToRange(vu, tbl) ==
    IF vu <= tbl[1][1] THEN "first"
    ELSE IF vu >= tbl[Len(tbl)][1] THEN "last"
    ELSE "inside"

\* a segment taken to hold only the inputs strictly inside it
InSegmentOpen(vu, v0, v1) == vu > v0 /\ vu < v1

\* vuDb >= v0 && vuDb <= v1
InSegment(vu, v0, v1) == vu >= v0 /\ vu <= v1

RECURSIVE FindSegment(_, _, _)
\* the loop over the segments, from segment i (1-based) on; past the last
\* segment the last angle is returned
FindSegment(vu, tbl, i) ==
    IF i >= Len(tbl) THEN Finite(tbl[Len(tbl)][2])
    ELSE IF InSegment(vu, tbl[i][1], tbl[i + 1][1])
         THEN Interpolate(vu, tbl[i][1], tbl[i][2], tbl[i + 1][1], tbl[i + 1][2])
    ELSE FindSegment(vu, tbl, i + 1)

vuToAngleDeg(vu, tbl) ==
    IF tbl = <<>> THEN Finite(0)
    ELSE LET where == ClampToRange(vu, tbl)
         IN  IF where = "first" THEN Finite(tbl[1][2])
             ELSE IF where = "last" THEN Finite(tbl[Len(tbl)][2])
             ELSE FindSegment(vu, tbl, 1)

\* the mapper before its first call
ScaleIdle ==
    /\ table = <<>>
    /\ vuDb = 0
    /\ angleDeg = NoAngle

----------------------------------------------------------------------------
(* JSON values, as QJsonValue presents them (SkinManager, SkinImporter) *)

JUndefined == [kind |-> "undefined"]
JDouble(n) == [kind |-> "double", n |-> n]
JString(s) == [kind |-> "string", s |-> s]
JArray(a) == [kind |-> "array", a |-> a]
JObject(o) == [kind |-> "object", o |-> o]

\* QJsonObject::value(key): Undefined for a key the object does not hold
jsonValue(o, key) == IF key \in DOMAIN o THEN o[key] ELSE JUndefined

isObject(v) == v.kind = "object"
isArray(v) == v.kind = "array"
isDouble(v) == v.kind = "double"
isString(v) == v.kind = "string"

\* QJsonValue::toInt(0) and toString(): the default for another kind
toInt(v) == IF isDouble(v) THEN v.n ELSE 0
toString(v) == IF isString(v) THEN v.s ELSE ""

----------------------------------------------------------------------------
(* Skins on disk and in memory *)

\* SkinManager.cpp: the only schema version scan() and loadSkin() accept
SchemaVersion == 2

\* SkinImporter.cpp: the schema version importAimpZip writes
ImportedSchemaVersion == 1

\* SkinManager.cpp: a scale table needs this many entries
MinEntries == 3

\* the names of a calibration's fields, in the order parseCalibrationStrict
\* requires them
CalibrationKeys ==
    <<"minAngle", "minLevel", "zeroAngle", "zeroLevel", "maxAngle", "maxLevel",
      "pivotX", "pivotY", "mobilityNegative", "mobilityPositive">>

\* a value-initialized VUMeterCalibration
ZeroCalibration ==
    [minAngle |-> 0, minLevel |-> 0, zeroAngle |-> 0, zeroLevel |-> 0,
     maxAngle |-> 0, maxLevel |-> 0, pivotX |-> 0, pivotY |-> 0,
     mobilityNegative |-> 0, mobilityPositive |-> 0]

\* a value-initialized VUMeterSkin
EmptyMeter == [loadedAssets |-> {}, calibration |-> ZeroCalibration, scaleTable |-> <<>>]

\* a default-constructed VUSkinPackage: the variant holds its first alternative
EmptyPackage ==
    [name |-> "", importedFrom |-> "", meters |-> [kind |-> "single", vu |-> EmptyMeter]]

\* a default-constructed LoadedSkin
EmptyLoadedSkin ==
    [ok |-> FALSE, error |-> "", warnings |-> {}, package |-> EmptyPackage,
     singleScale |-> <<>>, leftScale |-> <<>>, rightScale |-> <<>>]

\* no loadSkin() was called yet: loaded holds the id asked for and what loadSkin
\* returned for it
NothingLoaded == [skinId |-> "", out |-> EmptyLoadedSkin]

\* a default-constructed ImportResult
EmptyImportResult == [ok |-> FALSE, skinName |-> "", skinDir |-> "", error |-> ""]

\* the skins root before anything was imported, scanned or loaded
SkinIdle ==
    /\ skinsRoot = << >>
    /\ skins_ = {}
    /\ loaded = NothingLoaded
    /\ imported = EmptyImportResult

----------------------------------------------------------------------------
(* SkinManager: strict parsing *)

\* a relative path is the sequence of its components: one component, and not "..",
\* is a name without '/', '\\' and ".."
isTopLevelFileName(rel) == Len(rel) = 1 /\ rel[1] # ".."

\* requireInt / requireReal over the fields of a calibration, in the order of
\* the code: the first field that is not a number fails the parse
RECURSIVE RequireFields(_, _)
RequireFields(o, i) ==
    IF i > Len(CalibrationKeys) THEN ""
    ELSE IF ~isDouble(jsonValue(o, CalibrationKeys[i])) THEN CalibrationKeys[i]
    ELSE RequireFields(o, i + 1)

parseCalibrationStrict(o) ==
    LET missing == RequireFields(o, 1)
    IN  IF missing # ""
        THEN [ok |-> FALSE, error |-> "Missing or invalid field", field |-> missing,
              calibration |-> ZeroCalibration]
        ELSE [ok |-> TRUE, error |-> "", field |-> "",
              calibration |-> [k \in DOMAIN ZeroCalibration |-> o[k].n]]

\* the loop over the entries of a scaleTable array: the control points read so
\* far, or the error of the first entry that is refused
RECURSIVE ParseEntries(_, _, _)
ParseEntries(a, i, t) ==
    IF i > Len(a) THEN [ok |-> TRUE, error |-> "", t |-> t]
    ELSE IF ~isObject(a[i])
    THEN [ok |-> FALSE, error |-> "scaleTable contains a non-object entry", t |-> <<>>]
    ELSE IF ~isDouble(jsonValue(a[i].o, "angle")) \/ ~isDouble(jsonValue(a[i].o, "level"))
    THEN [ok |-> FALSE, error |-> "scaleTable entries must contain numeric angle and level",
          t |-> <<>>]
    ELSE ParseEntries(a, i + 1,
                      Append(t, <<jsonValue(a[i].o, "level").n, jsonValue(a[i].o, "angle").n>>))

Least(t) == CHOOSE l \in {t[i][1] : i \in 1..Len(t)} : \A j \in 1..Len(t) : l <= t[j][1]

Without(t, i) == SubSeq(t, 1, i - 1) \o SubSeq(t, i + 1, Len(t))

\* a sort that leaves the control points in the order of skin.json
StdSortKeepsOrder(t) == {t}

\* std::sort by level: ascending, and the order of control points of one level
\* is whatever the implementation leaves
RECURSIVE StdSort(_)
StdSort(t) ==
    IF t = <<>> THEN {<<>>}
    ELSE UNION {{<<t[i]>> \o s : s \in StdSort(Without(t, i))} :
                   i \in {j \in 1..Len(t) : t[j][1] = Least(t)}}

\* the outcomes of parseScaleTableStrict for the value of "scaleTable"
parseScaleTableStrict(v) ==
    IF ~isArray(v)
    THEN {[ok |-> FALSE, error |-> "Missing or invalid scaleTable (must be an array)",
           t |-> <<>>]}
    ELSE IF Len(v.a) < MinEntries
    THEN {[ok |-> FALSE,
           error |-> "scaleTable must contain at least 3 entries (min/zero/max)",
           t |-> <<>>]}
    ELSE LET read == ParseEntries(v.a, 1, <<>>)
         IN  IF ~read.ok THEN {read}
             ELSE {[ok |-> TRUE, error |-> "", t |-> s] : s \in StdSort(read.t)}

\* loadPixmap of the three assets: the file exists and is an image
loadPixmap(files, rel) == rel \in files

MeterFailed(error, warnings) ==
    [ok |-> FALSE, error |-> error, warnings |-> warnings, meter |-> EmptyMeter]

\* the outcomes of parseMeterStrict for one meter object of skin.json
parseMeterStrict(meterObj, files, expectedFace, expectedNeedle, expectedCap) ==
    LET assetsV == jsonValue(meterObj, "assets")
        calibV == jsonValue(meterObj, "calibration")
        scaleV == jsonValue(meterObj, "scaleTable")
    IN  IF ~isObject(assetsV) THEN {MeterFailed("Missing or invalid assets object", {})}
        ELSE IF ~isObject(calibV)
        THEN {MeterFailed("Missing or invalid calibration object", {})}
        ELSE
        LET faceV == jsonValue(assetsV.o, "face")
            needleV == jsonValue(assetsV.o, "needle")
            capV == jsonValue(assetsV.o, "cap")
        IN  IF ~isString(faceV) \/ ~isString(needleV) \/ ~isString(capV)
            THEN {MeterFailed("Missing or invalid string field", {})}
            ELSE IF \/ ~isTopLevelFileName(faceV.s)
                    \/ ~isTopLevelFileName(needleV.s)
                    \/ ~isTopLevelFileName(capV.s)
            THEN {MeterFailed("Asset filenames must be top-level files (no subdirectories)",
                              {})}
            ELSE IF \/ faceV.s # expectedFace
                    \/ needleV.s # expectedNeedle
                    \/ capV.s # expectedCap
            THEN {MeterFailed("Unexpected asset filenames", {})}
            ELSE
            LET calib == parseCalibrationStrict(calibV.o)
            IN  IF ~calib.ok THEN {MeterFailed(calib.error, {})}
                ELSE
                {IF ~scale.ok THEN MeterFailed(scale.error, {})
                 ELSE IF ~loadPixmap(files, faceV.s) THEN
                     MeterFailed("Failed to load one or more required skin assets",
                                 {faceV.s})
                 ELSE IF ~loadPixmap(files, needleV.s) THEN
                     MeterFailed("Failed to load one or more required skin assets",
                                 {needleV.s})
                 ELSE IF ~loadPixmap(files, capV.s) THEN
                     MeterFailed("Failed to load one or more required skin assets",
                                 {capV.s})
                 ELSE [ok |-> TRUE, error |-> "", warnings |-> {},
                       meter |-> [loadedAssets |-> {faceV.s, needleV.s, capV.s},
                                  calibration |-> calib.calibration,
                                  scaleTable |-> scale.t]] :
                     scale \in parseScaleTableStrict(scaleV)}

----------------------------------------------------------------------------
(* SkinManager: scan and loadSkin *)

\* the skins root is a function from directory names to directories; a
\* directory holds the document of its skin.json (Undefined when the file is
\* missing, unreadable or not JSON) and the files that are loadable images
Directory(json, files) == [json |-> json, files |-> files]

\* SkinManager::scan(): the SkinInfo of every directory it accepts
scan(root) ==
    {[id |-> id,
      name |-> toString(jsonValue(root[id].json.o, "name")),
      isStereo |-> toString(jsonValue(root[id].json.o, "type")) = "stereo"] :
        id \in {d \in DOMAIN root :
                   /\ isObject(root[d].json)
                   /\ toInt(jsonValue(root[d].json.o, "schemaVersion")) = SchemaVersion
                   /\ toString(jsonValue(root[d].json.o, "name")) # ""
                   /\ toString(jsonValue(root[d].json.o, "type")) \in {"single", "stereo"}}}

LoadFailed(error, warnings) ==
    [EmptyLoadedSkin EXCEPT !.error = error, !.warnings = warnings]

\* loadSkin leaves singleScale, leftScale and rightScale as constructed
Loaded(name, importedFrom, meters) ==
    [EmptyLoadedSkin EXCEPT
        !.ok = TRUE,
        !.package = [name |-> name, importedFrom |-> importedFrom, meters |-> meters]]

LoadSingle(name, importedFrom, metersObj, files) ==
    IF Cardinality(DOMAIN metersObj) # 1 \/ "vu" \notin DOMAIN metersObj
    THEN {LoadFailed("Single skin must contain exactly one meter entry: meters.vu", {})}
    ELSE IF ~isObject(metersObj["vu"])
    THEN {LoadFailed("Single skin must contain meters.vu", {})}
    ELSE {IF ~vu.ok THEN LoadFailed(vu.error, vu.warnings)
          ELSE Loaded(name, importedFrom, [kind |-> "single", vu |-> vu.meter]) :
             vu \in parseMeterStrict(metersObj["vu"].o, files,
                                     <<"face.png">>, <<"needle.png">>, <<"cap.png">>)}

LoadStereo(name, importedFrom, metersObj, files) ==
    IF \/ Cardinality(DOMAIN metersObj) # 2
       \/ "left" \notin DOMAIN metersObj
       \/ "right" \notin DOMAIN metersObj
    THEN {LoadFailed("Stereo skin must contain exactly two meter entries: meters.left and meters.right",
                     {})}
    ELSE IF ~isObject(metersObj["left"]) \/ ~isObject(metersObj["right"])
    THEN {LoadFailed("Stereo skin must contain meters.left and meters.right", {})}
    ELSE UNION
        {IF ~left.ok THEN {LoadFailed(left.error, left.warnings)}
         ELSE {IF ~right.ok THEN LoadFailed(right.error, right.warnings)
               ELSE Loaded(name, importedFrom,
                           [kind |-> "stereo", left |-> left.meter,
                            right |-> right.meter]) :
                  right \in parseMeterStrict(metersObj["right"].o, files,
                                             <<"R_face.png">>, <<"R_needle.png">>,
                                             <<"R_cap.png">>)} :
            left \in parseMeterStrict(metersObj["left"].o, files,
                                      <<"L_face.png">>, <<"L_needle.png">>,
                                      <<"L_cap.png">>)}

\* the outcomes of SkinManager::loadSkin(skinId)
loadSkin(skins, root, skinId) ==
    IF \A i \in skins : i.id # skinId THEN {LoadFailed("Unknown skin id", {})}
    ELSE IF skinId \notin DOMAIN root THEN {LoadFailed("Failed to open skin.json", {})}
    ELSE IF ~isObject(root[skinId].json)
    THEN {LoadFailed("skin.json is not a JSON object", {})}
    ELSE
    LET rootObj == root[skinId].json.o
        type == toString(jsonValue(rootObj, "type"))
        name == toString(jsonValue(rootObj, "name"))
        importedFrom == toString(jsonValue(rootObj, "importedFrom"))
        metersV == jsonValue(rootObj, "meters")
    IN  IF toInt(jsonValue(rootObj, "schemaVersion")) # SchemaVersion
        THEN {LoadFailed("Unsupported schemaVersion (expected 2)", {})}
        ELSE IF type \notin {"single", "stereo"}
        THEN {LoadFailed("Invalid skin type (expected 'single' or 'stereo')", {})}
        ELSE IF name = "" THEN {LoadFailed("Missing or invalid name", {})}
        ELSE IF importedFrom = "" THEN {LoadFailed("Missing or invalid importedFrom", {})}
        ELSE IF ~isObject(metersV) THEN {LoadFailed("Missing or invalid meters object", {})}
        ELSE IF type = "single"
        THEN LoadSingle(name, importedFrom, metersV.o, root[skinId].files)
        ELSE LoadStereo(name, importedFrom, metersV.o, root[skinId].files)

----------------------------------------------------------------------------
(* SkinImporter: importAimpZip *)

\* defaultCalibration(), mobility in thousandths
defaultCalibration ==
    [minAngle |-> -47, minLevel |-> -20, zeroAngle |-> 20, zeroLevel |-> 0,
     maxAngle |-> 47, maxLevel |-> 3, pivotX |-> 310, pivotY |-> 362,
     mobilityNegative |-> 50, mobilityPositive |-> 100]

\* the key of skin.ini that parseCalibrationGroup reads into each field
IniKeys ==
    [minAngle |-> "MinAngle", minLevel |-> "MinLevel", zeroAngle |-> "ZeroAngle",
     zeroLevel |-> "ZeroLevel", maxAngle |-> "MaxAngle", maxLevel |-> "MaxLevel",
     pivotX |-> "PivotPointX", pivotY |-> "PivotPointY",
     mobilityNegative |-> "MobilityNegative", mobilityPositive |-> "MobilityPositive"]

\* skin.ini is a function from group names to the keys the group sets
parseCalibrationGroup(ini, groupName) ==
    [k \in DOMAIN defaultCalibration |->
        IF groupName \in DOMAIN ini /\ IniKeys[k] \in DOMAIN ini[groupName]
        THEN ini[groupName][IniKeys[k]]
        ELSE defaultCalibration[k]]

buildScaleTableFromIni(calib) ==
    <<<<calib.minLevel, calib.minAngle>>,
      <<calib.zeroLevel, calib.zeroAngle>>,
      <<calib.maxLevel, calib.maxAngle>>>>

calibrationToJson(c) ==
    JObject([minAngle |-> JDouble(c.minAngle), minLevel |-> JDouble(c.minLevel),
             zeroAngle |-> JDouble(c.zeroAngle), zeroLevel |-> JDouble(c.zeroLevel),
             maxAngle |-> JDouble(c.maxAngle), maxLevel |-> JDouble(c.maxLevel),
             pivotX |-> JDouble(c.pivotX), pivotY |-> JDouble(c.pivotY),
             mobilityNeg |-> JDouble(c.mobilityNegative),
             mobilityPos |-> JDouble(c.mobilityPositive)])

scaleTableToJson(t) ==
    JArray([i \in 1..Len(t) |->
               JObject([level |-> JDouble(t[i][1]), angle |-> JDouble(t[i][2])])])

meterJson(face, needle, cap, calib, tbl) ==
    JObject([assets |-> JObject([face |-> JString(face), needle |-> JString(needle),
                                 cap |-> JString(cap)]),
             calibration |-> calibrationToJson(calib),
             scaleTable |-> scaleTableToJson(tbl)])

\* sanitizedDirName over the base names of the packages at hand: a character
\* that is no letter, digit, '_', '-' or ' ' becomes '_'
sanitizedDirName(in) == IF in = "a.b" THEN "a_b" ELSE in

\* "%1-%2" over the directory names at hand
NumberedNames ==
    [aimp |-> <<"aimp", "aimp-2", "aimp-3", "aimp-4">>,
     a_b |-> <<"a_b", "a_b-2", "a_b-3", "a_b-4">>]

\* the first of baseName, baseName-2, baseName-3, ... the skins root does not hold
RECURSIVE FinalDirName(_, _, _)
FinalDirName(root, baseName, i) ==
    IF NumberedNames[baseName][i] \notin DOMAIN root THEN NumberedNames[baseName][i]
    ELSE FinalDirName(root, baseName, i + 1)

SingleAssets == {"0.png", "1.png", "2.png"}
StereoAssets == {"l_0.png", "l_1.png", "l_2.png", "r_0.png", "r_1.png", "r_2.png"}

\* the files importAimpZip copies into the skin directory
ImportedFiles ==
    {<<"single", "face.png">>, <<"single", "needle.png">>, <<"single", "cap.png">>,
     <<"stereo", "left", "face.png">>, <<"stereo", "left", "needle.png">>,
     <<"stereo", "left", "cap.png">>,
     <<"stereo", "right", "face.png">>, <<"stereo", "right", "needle.png">>,
     <<"stereo", "right", "cap.png">>}

ImportFailed(error) == [EmptyImportResult EXCEPT !.error = error]

With(root, id, dir) == [d \in DOMAIN root \cup {id} |-> IF d = id THEN dir ELSE root[d]]

\* the skin.json importAimpZip writes
ImportedJson(finalDirName, isStereo, zipFileName, singleCalib, leftCalib, rightCalib) ==
    JObject(
        [schemaVersion |-> JDouble(ImportedSchemaVersion),
         name |-> JString(finalDirName),
         type |-> JString(IF isStereo THEN "stereo" ELSE "single"),
         meters |-> JObject(
             [single |-> meterJson(<<"single", "face.png">>, <<"single", "needle.png">>,
                                   <<"single", "cap.png">>, singleCalib,
                                   buildScaleTableFromIni(singleCalib)),
              stereo |-> JObject(
                  [left |-> meterJson(<<"stereo", "left", "face.png">>,
                                      <<"stereo", "left", "needle.png">>,
                                      <<"stereo", "left", "cap.png">>, leftCalib,
                                      buildScaleTableFromIni(leftCalib)),
                   right |-> meterJson(<<"stereo", "right", "face.png">>,
                                       <<"stereo", "right", "needle.png">>,
                                       <<"stereo", "right", "cap.png">>, rightCalib,
                                       buildScaleTableFromIni(rightCalib))])]),
         importedFrom |-> JString(zipFileName)])

\* SkinImporter::importAimpZip: its result and the skins root it leaves.  zip
\* is the package (whether it exists and extracts, its file name, its files in
\* lower case and its skin.ini); io tells which write to the disk fails
importAimpZip(root, zip, io) ==
    IF ~zip.exists THEN [result |-> ImportFailed("ZIP not found"), root |-> root]
    ELSE IF ~zip.extracts
    THEN [result |-> ImportFailed("Failed to extract ZIP"), root |-> root]
    ELSE IF "skin.ini" \notin zip.files
    THEN [result |-> ImportFailed("skin.ini not found in ZIP"), root |-> root]
    ELSE
    LET hasSingle == SingleAssets \subseteq zip.files
        hasStereo == StereoAssets \subseteq zip.files
        isStereo == hasStereo
    IN  IF ~hasStereo /\ ~hasSingle
        THEN [result |-> ImportFailed("ZIP does not contain expected AIMP assets"),
              root |-> root]
        ELSE
        LET leftCalib == parseCalibrationGroup(zip.ini, IF isStereo THEN "VU_L" ELSE "VU")
            rightCalib == parseCalibrationGroup(zip.ini, IF isStereo THEN "VU_R" ELSE "VU")
            singleCalib == leftCalib
            finalDirName == FinalDirName(root, sanitizedDirName(zip.baseName), 1)
        IN  IF io = "mkpath"
            THEN [result |-> ImportFailed("Failed to create skin directory"), root |-> root]
            ELSE IF io = "copy"
            THEN [result |-> ImportFailed("Failed to copy"),
                  root |-> With(root, finalDirName, Directory(JUndefined, {}))]
            ELSE IF io = "write"
            THEN [result |-> ImportFailed("Failed to write skin.json"),
                  root |-> With(root, finalDirName, Directory(JUndefined, ImportedFiles))]
            ELSE [result |-> [ok |-> TRUE, skinName |-> finalDirName,
                              skinDir |-> finalDirName, error |-> ""],
                  root |-> With(root, finalDirName,
                                Directory(ImportedJson(finalDirName, isStereo,
                                                       zip.fileName, singleCalib,
                                                       leftCalib, rightCalib),
                                          ImportedFiles))]

----------------------------------------------------------------------------
(* The inputs of the engine *)

\* sample values: silence, a level just at the wake threshold, full scale
Samples == {0, 20, 10000}

\* buffer lengths, in frames
FrameCounts == {1, 2}

\* sample rates in Hz: 25 Hz gives dt = 40 ms and (clamped) 80 ms for the
\* buffer lengths of the model
SampleRates == {25}

\* sample rates the guard refuses
BadSampleRates == {-1, 0}

\* reference levels a caller sets
\* the options a caller passes: the built-in reference of either device
\* type, or the stored level as an override
ReferenceOptions ==
    {DefaultReferenceOptions,
     [DefaultReferenceOptions EXCEPT !.deviceType = 1],
     [DefaultReferenceOptions EXCEPT !.referenceDbfsOverride = TRUE]}

\* an interleaved buffer whose frames all hold the samples (sL, sR)
Interleaved(frames, channels, sL, sR) ==
    [null |-> FALSE,
     samples |-> [k \in 1..(frames * channels) |->
                     IF (k - 1) % channels = 0 THEN sL ELSE sR]]

NullData == [null |-> TRUE, samples |-> <<>>]

\* the caller holds no buffer
NoBuffer == [frames |-> 0, channels |-> 0, sL |-> 0, sR |-> 0]

\* the calls the guard is there for: each has a full-scale buffer of
\* two stereo frames at the rate r, but for the one thing that is wrong
MalformedCalls(r) ==
    LET good == [data |-> Interleaved(2, 2, 10000, 10000),
                 frames |-> 2, channels |-> 2, sampleRate |-> r]
    IN  {[good EXCEPT !.data = NullData],
         [good EXCEPT !.frames = 0],
         [good EXCEPT !.channels = 0]}
        \cup {[good EXCEPT !.sampleRate = b] : b \in BadSampleRates}

NoCall == [kind |-> "none", channels |-> 0, wake |-> FALSE, targetVuL |-> 0, targetVuR |-> 0,
           rmsL_vu |-> 0, rmsR_vu |-> 0]

CallOf(kind, channels, res) ==
    [kind |-> kind, channels |-> channels, wake |-> res.wake,
     targetVuL |-> res.targetVuL, targetVuR |-> res.targetVuR,
     rmsL_vu |-> res.rmsL_vu, rmsR_vu |-> res.rmsR_vu]

----------------------------------------------------------------------------
(* The capture session: construction *)

\* kDeviceTypeMonitor
kDeviceTypeMonitor == 0

\* kDeviceTypeMicrophone
kDeviceTypeMicrophone == 1

\* device identifiers a caller passes to switchDevice ("" asks for the default)
Devices == {"", "alsa_output.monitor", "alsa_input"}

\* the value leftVuDb_ and rightVuDb_ hold before the first store
InitialVuDb(p) == FloorVu(p)

\* Options{}: the options a session is constructed with
DefaultOptions ==
    [deviceName |-> "", deviceType |-> 0,
     referenceDbfs |-> DefaultReferenceOptions.referenceDbfs,
     referenceDbfsOverride |-> DefaultReferenceOptions.referenceDbfsOverride,
     microphoneReferenceDbfs |-> 0, monitorReferenceDbfs |-> -14]

NoOp == [name |-> "none", device |-> "", ok |-> FALSE]

\* no second run of the engine
NoTwin ==
    [state |-> FreshDspState, ballisticsL |-> 0, ballisticsR |-> 0,
     outVuL |-> 0, outVuR |-> 0, owed |-> <<>>, calls |-> 0]

\* no second caller thread
NoCaller == [pc |-> "absent", op |-> NoOp]

\* the session is used from one thread, and the engine by one run
OneCaller == other = NoCaller /\ twin = NoTwin

\* no deviceChanged signal was emitted since the last call began
NoSignal == [count |-> 0, uid |-> ""]

\* AudioCapture::AudioCapture(options): the session fields after construction
Constructed(o) ==
    /\ running_ = FALSE
    /\ thread_ = "none"
    /\ cb = "idle"
    /\ quit = FALSE
    /\ mainloop_ = FALSE
    /\ context_ = "none"
    /\ stream_ = "none"
    /\ source_ = ""
    /\ lookups = <<>>
    /\ deviceChanged = NoSignal
    /\ pc = "idle"
    /\ op = NoOp
    /\ options_ = o
    /\ deviceType_ = o.deviceType
    /\ currentDeviceUID_ = o.deviceName
    /\ leftVuDb_ = InitialVuDb(platform)
    /\ rightVuDb_ = InitialVuDb(platform)
    /\ readL = InitialVuDb(platform)
    /\ readR = InitialVuDb(platform)
    /\ errorSurfaced = FALSE
    /\ backendError = FALSE
    /\ dspFreed = FALSE
    /\ sinceSwitch = "none"
    /\ nOps = 0

\* a session constructed with the default options
SessionConstructed == Constructed(DefaultOptions)

----------------------------------------------------------------------------
(* The engine driven directly, buffer by buffer *)

InitDsp ==
    /\ platform \in Platforms
    /\ state = FreshDspState
    /\ ballisticsL = BallisticsReset(FloorVu(platform))
    /\ ballisticsR = BallisticsReset(FloorVu(platform))
    /\ outVuL = FloorVu(platform)
    /\ outVuR = FloorVu(platform)
    /\ call = NoCall
    /\ refOptions \in ReferenceOptions
    /\ rate \in SampleRates
    /\ nCalls = 0
    /\ silenceOnly = FALSE
    /\ nSilent = 0
    /\ SessionConstructed
    /\ ScaleIdle
    /\ SkinIdle
    /\ buffer = NoBuffer
    /\ OneCaller

\* the engine's results stored where the caller holds them
Apply(kind, channels, res) ==
    /\ state' = res.state
    /\ ballisticsL' = res.ballisticsL
    /\ ballisticsR' = res.ballisticsR
    /\ outVuL' = res.outVuL
    /\ outVuR' = res.outVuR
    /\ call' = CallOf(kind, channels, res)

\* a call with a well-formed buffer
ProcessBuffer ==
    /\ UNCHANGED <<sessionVars, scaleVars, twinVars, skinVars, givenVars>>
    /\ ~silenceOnly
    /\ nCalls < MaxCalls
    /\ \E frames \in FrameCounts, channels \in 1..2, sL, sR \in Samples :
          /\ (channels = 1 => sR = sL)
          /\ Apply("run", channels,
                   processInterleavedFloatAudioToVuDb(
                       Interleaved(frames, channels, sL, sR), frames, channels,
                       rate, refOptions, ballisticsL, ballisticsR, state,
                       FloorVu(platform), CeilingVu(platform)))
    /\ nCalls' = nCalls + 1
    /\ UNCHANGED <<platform, refOptions, rate, silenceOnly, nSilent>>

\* a call with a well-formed all-zero buffer, once the input is silent
ProcessSilence ==
    /\ UNCHANGED <<sessionVars, scaleVars, twinVars, skinVars, givenVars>>
    /\ silenceOnly
    /\ \E frames \in FrameCounts, channels \in 1..2 :
          Apply("run", channels,
                processInterleavedFloatAudioToVuDb(
                    Interleaved(frames, channels, 0, 0), frames, channels,
                    rate, refOptions, ballisticsL, ballisticsR, state,
                    FloorVu(platform), CeilingVu(platform)))
    /\ nSilent' = Min(nSilent + 1, SettleCalls)
    /\ UNCHANGED <<platform, refOptions, rate, nCalls, silenceOnly>>

\* a call with no data, no frames, no channels or no positive sample rate
ProcessMalformed ==
    /\ UNCHANGED <<sessionVars, scaleVars, twinVars, skinVars, givenVars>>
    /\ ~silenceOnly
    /\ \E c \in MalformedCalls(rate) :
          Apply("malformed", c.channels,
                processInterleavedFloatAudioToVuDb(
                    c.data, c.frames, c.channels, c.sampleRate, refOptions,
                    ballisticsL, ballisticsR, state,
                    FloorVu(platform), CeilingVu(platform)))
    /\ UNCHANGED <<platform, refOptions, rate, nCalls, silenceOnly, nSilent>>

\* the owner of the state resets it from outside the engine (a cold start)
ExternalReset ==
    /\ UNCHANGED <<sessionVars, scaleVars, twinVars, skinVars, givenVars>>
    /\ ~silenceOnly
    /\ state' = FreshDspState
    /\ ballisticsL' = BallisticsReset(FloorVu(platform))
    /\ ballisticsR' = BallisticsReset(FloorVu(platform))
    /\ call' = [NoCall EXCEPT !.kind = "reset"]
    /\ UNCHANGED <<platform, outVuL, outVuR, refOptions, rate, nCalls, silenceOnly,
                   nSilent>>

\* from here on the input is silent
BeginSilence ==
    /\ UNCHANGED <<sessionVars, scaleVars, twinVars, skinVars, givenVars>>
    /\ ~silenceOnly
    /\ silenceOnly' = TRUE
    /\ call' = NoCall
    /\ UNCHANGED <<platform, state, ballisticsL, ballisticsR, outVuL, outVuR,
                   refOptions, rate, nCalls, nSilent>>

NextDsp ==
    \/ ProcessBuffer
    \/ ProcessSilence
    \/ ProcessMalformed
    \/ ExternalReset
    \/ BeginSilence

SpecDsp == InitDsp /\ [][NextDsp]_vars

----------------------------------------------------------------------------
(* The engine as a function of its arguments: any state a caller may pass *)

\* engine calls made in a row on the passed state
MaxEngineCalls == 1

\* DSP states a caller passes: fresh, after loud equal channels, and with the
\* two channels' halves unequal (awake or not)
EngineStates ==
    {FreshDspState,
     [prevL |-> AmpScale, prevR |-> AmpScale,
      rmsL_smooth |-> AmpScale * AmpScale, rmsR_smooth |-> AmpScale * AmpScale,
      meterAwake |-> TRUE],
     [prevL |-> AmpScale, prevR |-> 0,
      rmsL_smooth |-> AmpScale * AmpScale, rmsR_smooth |-> 0,
      meterAwake |-> TRUE],
     [prevL |-> 0, prevR |-> AmpScale,
      rmsL_smooth |-> 0, rmsR_smooth |-> AmpScale * AmpScale,
      meterAwake |-> FALSE]}

\* ballistics values a caller passes: <<left, right>>
EngineBallistics(p) ==
    {<<FloorVu(p), FloorVu(p)>>, <<0, 0>>, <<0, FloorVu(p)>>}

\* the options a caller passes, with a second override level
EngineReferenceOptions ==
    ReferenceOptions
    \cup {[referenceDbfs |-> DefaultReferenceOptions.referenceDbfs + 3,
           referenceDbfsOverride |-> o, deviceType |-> t] :
              o \in BOOLEAN, t \in {0, 1}}

InitEngine ==
    /\ platform \in Platforms
    /\ state \in EngineStates
    /\ \E b \in EngineBallistics(platform) :
          ballisticsL = b[1] /\ ballisticsR = b[2]
    /\ outVuL = FloorVu(platform)
    /\ outVuR = FloorVu(platform)
    /\ call = NoCall
    /\ refOptions \in EngineReferenceOptions
    /\ rate \in SampleRates
    /\ nCalls = 0
    /\ silenceOnly = FALSE
    /\ nSilent = 0
    /\ SessionConstructed
    /\ ScaleIdle
    /\ SkinIdle
    /\ buffer = NoBuffer
    /\ OneCaller

\* a call with a well-formed buffer on the passed state
CallEngine ==
    /\ UNCHANGED <<sessionVars, scaleVars, twinVars, skinVars, givenVars>>
    /\ nCalls < MaxEngineCalls
    /\ \E frames \in FrameCounts, channels \in 1..2, sL, sR \in Samples :
          /\ (channels = 1 => sR = sL)
          /\ Apply("run", channels,
                   processInterleavedFloatAudioToVuDb(
                       Interleaved(frames, channels, sL, sR), frames, channels,
                       rate, refOptions, ballisticsL, ballisticsR, state,
                       FloorVu(platform), CeilingVu(platform)))
    /\ nCalls' = nCalls + 1
    /\ UNCHANGED <<platform, refOptions, rate, silenceOnly, nSilent>>

NextEngine == CallEngine

SpecEngine == InitEngine /\ [][NextEngine]_vars

----------------------------------------------------------------------------
(* The engine called on the buffer its caller holds *)

\* calls made in a row on the one buffer
MaxSeedCalls == 2

\* sample values: silence, levels around the wake threshold, full scale
SeedSamples == {0, 20, 30, 10000}

\* smoothed powers a caller passes: none, one below the wake threshold's power,
\* full scale
SeedPowers == {0, 100, AmpScale * AmpScale}

InitSeed ==
    /\ platform \in Platforms
    /\ \E pL, pR \in SeedPowers, awake \in BOOLEAN :
          state = [FreshDspState EXCEPT !.rmsL_smooth = pL, !.rmsR_smooth = pR,
                                        !.meterAwake = awake]
    /\ ballisticsL = BallisticsReset(FloorVu(platform))
    /\ ballisticsR = BallisticsReset(FloorVu(platform))
    /\ outVuL = FloorVu(platform)
    /\ outVuR = FloorVu(platform)
    /\ call = NoCall
    /\ refOptions = DefaultReferenceOptions
    /\ rate \in SampleRates
    /\ nCalls = 0
    /\ silenceOnly = FALSE
    /\ nSilent = 0
    /\ SessionConstructed
    /\ ScaleIdle
    /\ SkinIdle
    /\ OneCaller
    /\ \E frames \in FrameCounts, channels \in 1..2, sL, sR \in SeedSamples :
          /\ (channels = 1 => sR = sL)
          /\ buffer = [frames |-> frames, channels |-> channels, sL |-> sL, sR |-> sR]

\* a call of the engine on the caller's buffer and state
CallOnBuffer ==
    /\ UNCHANGED <<sessionVars, scaleVars, twinVars, skinVars, givenVars>>
    /\ nCalls < MaxSeedCalls
    /\ Apply("run", buffer.channels,
             processInterleavedFloatAudioToVuDb(
                 Interleaved(buffer.frames, buffer.channels, buffer.sL, buffer.sR),
                 buffer.frames, buffer.channels, rate, refOptions,
                 ballisticsL, ballisticsR, state,
                 FloorVu(platform), CeilingVu(platform)))
    /\ nCalls' = nCalls + 1
    /\ UNCHANGED <<platform, refOptions, rate, silenceOnly, nSilent>>

NextSeed == CallOnBuffer

SpecSeed == InitSeed /\ [][NextSeed]_vars

\* the sums of squares of the caller's buffer, pre-emphasised from the state
\* the call starts in
BufferSums ==
    FrameLoop(Interleaved(buffer.frames, buffer.channels, buffer.sL, buffer.sR),
              buffer.frames, buffer.channels, 0,
              [prevL |-> state.prevL, prevR |-> state.prevR, sumL |-> 0, sumR |-> 0])

\* new is alpha * old + (1 - alpha) * rms * rms, each product rounded down to a
\* unit of power and the sum within one unit
Blend(new, old, rms, alpha) ==
    LET sum == MulDiv(old, alpha, WeightScale)
                   + MulDiv(rms * rms, WeightScale - alpha, WeightScale)
    IN  sum <= new /\ new <= sum + 1

\* what a call leaves as a channel's smoothed power, from what it found
SeededOrBlended(new, old, rms, alpha) ==
    IF rms > WakeThreshold THEN new = rms * rms ELSE Blend(new, old, rms, alpha)

\* C22: over a call of the engine, per channel and independently of the other:
\* when the buffer's RMS is above the wake threshold the smoothed power after
\* the call is rms * rms whatever it was before, else it is
\* alpha * old + (1 - alpha) * rms * rms
C22_SeedBeforeSmoothing ==
    [][nCalls' = nCalls + 1 =>
          LET rmsL == BufferRms(BufferSums.sumL, buffer.frames)
              rmsR == BufferRms(BufferSums.sumR, buffer.frames)
              alpha == Alpha(BufferDt(buffer.frames, rate))
          IN  /\ SeededOrBlended(state'.rmsL_smooth, state.rmsL_smooth, rmsL, alpha)
              /\ SeededOrBlended(state'.rmsR_smooth, state.rmsR_smooth, rmsR, alpha)]_vars

\* a call found one channel above the wake threshold and the other at or below
\* it: the left power was replaced by the buffer's, the right one was blended
\* and kept part of what it was
C22_Witness ==
    /\ nCalls = 1
    /\ buffer.channels = 2
    /\ buffer.sL = AmpScale
    /\ buffer.sR = 0
    /\ buffer.frames = 1
    /\ state.rmsL_smooth = PreEmphasis(AmpScale, 0) * PreEmphasis(AmpScale, 0)
    /\ state.rmsR_smooth > 0
    /\ state.rmsR_smooth < AmpScale * AmpScale

----------------------------------------------------------------------------
(* Two runs of the engine, each on a DSP state and ballistics of its own *)

\* calls the first run makes
MaxTwinCalls == 2

\* the samples of the buffers handed to both runs: silence and full scale
TwinSamples == {0, AmpScale}

\* a buffer handed to both runs
Buffer(frames, channels, sL, sR) ==
    [frames |-> frames, channels |-> channels, sL |-> sL, sR |-> sR]

\* the second run's DSP state, ballistics and outputs after a call
TwinAfter(t, res) ==
    [state |-> res.state, ballisticsL |-> res.ballisticsL,
     ballisticsR |-> res.ballisticsR, outVuL |-> res.outVuL,
     outVuR |-> res.outVuR, owed |-> Tail(t.owed), calls |-> t.calls + 1]

\* both runs start from equal DSP state and equal ballistics
InitTwin ==
    /\ platform \in Platforms
    /\ state \in EngineStates
    /\ \E b \in EngineBallistics(platform) :
          ballisticsL = b[1] /\ ballisticsR = b[2]
    /\ outVuL = FloorVu(platform)
    /\ outVuR = FloorVu(platform)
    /\ call = NoCall
    /\ refOptions \in ReferenceOptions
    /\ rate \in SampleRates
    /\ nCalls = 0
    /\ silenceOnly = FALSE
    /\ nSilent = 0
    /\ SessionConstructed
    /\ ScaleIdle
    /\ SkinIdle
    /\ buffer = NoBuffer
    /\ other = NoCaller
    /\ twin = [state |-> state, ballisticsL |-> ballisticsL,
               ballisticsR |-> ballisticsR, outVuL |-> outVuL,
               outVuR |-> outVuR, owed |-> <<>>, calls |-> 0]

\* the first run processes a buffer, which the second run is then owed
FirstRunCalls ==
    /\ nCalls < MaxTwinCalls
    /\ \E frames \in {1}, channels \in 1..2, sL, sR \in TwinSamples :
          /\ (channels = 1 => sR = sL)
          /\ Apply("run", channels,
                   processInterleavedFloatAudioToVuDb(
                       Interleaved(frames, channels, sL, sR), frames, channels,
                       rate, refOptions, ballisticsL, ballisticsR, state,
                       FloorVu(platform), CeilingVu(platform)))
          /\ twin' = [twin EXCEPT
                         !.owed = Append(@, Buffer(frames, channels, sL, sR))]
    /\ nCalls' = nCalls + 1
    /\ UNCHANGED <<platform, refOptions, rate, silenceOnly, nSilent, sessionVars,
                   scaleVars, skinVars, givenVars>>

\* the second run processes, with the same options, the oldest buffer it is
\* owed
SecondRunCalls ==
    /\ twin.owed # <<>>
    /\ LET b == Head(twin.owed)
       IN  twin' = TwinAfter(twin,
                       processInterleavedFloatAudioToVuDb(
                           Interleaved(b.frames, b.channels, b.sL, b.sR),
                           b.frames, b.channels, rate, refOptions,
                           twin.ballisticsL, twin.ballisticsR, twin.state,
                           FloorVu(platform), CeilingVu(platform)))
    /\ UNCHANGED <<platform, dspVars, sessionVars, scaleVars, skinVars, givenVars>>

NextTwin ==
    \/ FirstRunCalls
    \/ SecondRunCalls

SpecTwin == InitTwin /\ [][NextTwin]_vars

----------------------------------------------------------------------------
(* The scale mapper as a function of its arguments *)

\* control points per table
MaxPoints == 4

\* levels of control points, in dB
ControlLevels == {-20, 0, 3}

\* angles of control points
ControlAngles == {-47 * AngleScale, 18 * AngleScale, 47 * AngleScale}

\* tables a caller passes: sorted ascending by level, equal levels allowed,
\* of 0 to MaxPoints points, and the built-in table
SortedTables ==
    {t \in UNION {[1..n -> ControlLevels \X ControlAngles] : n \in 0..MaxPoints} :
        \A i \in 1..(Len(t) - 1) : t[i][1] <= t[i + 1][1]}
    \cup {builtInDefaultScaleTable}

\* readings a caller passes, in dB
InputLevels == {-30, -20, -15, -10, -8, -5, -1, 0, 1, 2, 3, 30}

InitScale ==
    /\ platform = "linux"
    /\ state = FreshDspState
    /\ ballisticsL = BallisticsReset(FloorVu(platform))
    /\ ballisticsR = BallisticsReset(FloorVu(platform))
    /\ outVuL = FloorVu(platform)
    /\ outVuR = FloorVu(platform)
    /\ call = NoCall
    /\ refOptions = DefaultReferenceOptions
    /\ rate \in SampleRates
    /\ nCalls = 0
    /\ silenceOnly = FALSE
    /\ nSilent = 0
    /\ SessionConstructed
    /\ OneCaller
    /\ table \in SortedTables
    /\ vuDb = 0
    /\ angleDeg = NoAngle
    /\ SkinIdle
    /\ buffer = NoBuffer

\* a call of vuToAngleDeg
MapVu ==
    /\ \E v \in InputLevels :
          /\ vuDb' = v
          /\ angleDeg' = vuToAngleDeg(v, table)
    /\ UNCHANGED <<platform, dspVars, sessionVars, table, twinVars, skinVars, givenVars>>

NextScale == MapVu

SpecScale == InitScale /\ [][NextScale]_vars

----------------------------------------------------------------------------
(* Skins: the operations *)

\* SkinManager::scan()
Scan ==
    /\ skins_' = scan(skinsRoot)
    /\ UNCHANGED <<skinsRoot, loaded, imported>>
    /\ UNCHANGED <<platform, dspVars, sessionVars, scaleVars, twinVars, givenVars>>

\* SkinManager::loadSkin(skinId), for a directory name or a name never seen
LoadSkin ==
    /\ \E skinId \in DOMAIN skinsRoot \cup {"nowhere"} :
          \E out \in loadSkin(skins_, skinsRoot, skinId) :
              loaded' = [skinId |-> skinId, out |-> out]
    /\ UNCHANGED <<skinsRoot, skins_, imported>>
    /\ UNCHANGED <<platform, dspVars, sessionVars, scaleVars, twinVars, givenVars>>

\* largest number of entries of a scaleTable array in a skin.json
MaxEntries == 4

Entry(level, angle) == JObject([level |-> JDouble(level), angle |-> JDouble(angle)])

\* entries of a scaleTable array: control points, two of them of one level, and
\* entries the parser refuses
Entries ==
    {Entry(-20, -47), Entry(0, 18), Entry(0, 20), Entry(3, 47),
     JDouble(0),
     JObject([level |-> JDouble(0)]),
     JObject([level |-> JString("0"), angle |-> JDouble(0)])}

\* the values of "scaleTable": arrays in any order, and values that are no array
ScaleTableValues ==
    {JArray(a) : a \in UNION {[1..n -> Entries] : n \in 0..MaxEntries}}
        \cup {JUndefined, JString("default")}

\* a calibration object as the manager reads it
ManagerCalibrationJson(c) == JObject([k \in DOMAIN c |-> JDouble(c[k])])

\* a meter object of a skin.json written for the manager
ManagerMeter(face, needle, cap, scaleV) ==
    JObject([assets |-> JObject([face |-> JString(<<face>>), needle |-> JString(<<needle>>),
                                 cap |-> JString(<<cap>>)]),
             calibration |-> ManagerCalibrationJson(defaultCalibration),
             scaleTable |-> scaleV])

SkinJson(version, name, type, meters) ==
    JObject([schemaVersion |-> JDouble(version), name |-> JString(name),
             type |-> JString(type), meters |-> JObject(meters),
             importedFrom |-> JString("classic.zip")])

SingleFiles == {<<"face.png">>, <<"needle.png">>, <<"cap.png">>}

StereoFiles ==
    {<<"L_face.png">>, <<"L_needle.png">>, <<"L_cap.png">>,
     <<"R_face.png">>, <<"R_needle.png">>, <<"R_cap.png">>}

SingleSkin(version, files, scaleV) ==
    Directory(SkinJson(version, "classic", "single",
                       [vu |-> ManagerMeter("face.png", "needle.png", "cap.png", scaleV)]),
              files)

StereoSkin(version, files, leftV, rightV) ==
    Directory(SkinJson(version, "classic", "stereo",
                       [left |-> ManagerMeter("L_face.png", "L_needle.png", "L_cap.png",
                                              leftV),
                        right |-> ManagerMeter("R_face.png", "R_needle.png", "R_cap.png",
                                               rightV)]),
              files)

\* a scaleTable array out of order, and one in order
UnsortedTable == JArray(<<Entry(3, 47), Entry(0, 18), Entry(-20, -47), Entry(0, 20)>>)
SortedTable == JArray(<<Entry(-20, -47), Entry(0, 18), Entry(3, 47)>>)

\* the skin directories written by hand: single skins over every scaleTable
\* value, stereo skins with one side varied, and packages the manager refuses
HandWrittenSkins ==
    {SingleSkin(SchemaVersion, SingleFiles, v) : v \in ScaleTableValues}
        \cup {StereoSkin(SchemaVersion, StereoFiles, l, r) :
                 l \in {UnsortedTable, SortedTable, JUndefined},
                 r \in {v \in ScaleTableValues : isArray(v) => Len(v.a) <= MinEntries}}
        \cup {SingleSkin(ImportedSchemaVersion, SingleFiles, SortedTable),
              SingleSkin(SchemaVersion, SingleFiles \ {<<"needle.png">>}, UnsortedTable),
              StereoSkin(SchemaVersion, SingleFiles, SortedTable, SortedTable)}

InitSkin ==
    /\ platform = "linux"
    /\ state = FreshDspState
    /\ ballisticsL = BallisticsReset(FloorVu(platform))
    /\ ballisticsR = BallisticsReset(FloorVu(platform))
    /\ outVuL = FloorVu(platform)
    /\ outVuR = FloorVu(platform)
    /\ call = NoCall
    /\ refOptions = DefaultReferenceOptions
    /\ rate \in SampleRates
    /\ nCalls = 0
    /\ silenceOnly = FALSE
    /\ nSilent = 0
    /\ SessionConstructed
    /\ OneCaller
    /\ ScaleIdle
    /\ buffer = NoBuffer
    /\ \E dir \in HandWrittenSkins : skinsRoot = [d \in {"classic"} |-> dir]
    /\ skins_ = {}
    /\ loaded = NothingLoaded
    /\ imported = EmptyImportResult

NextSkin ==
    \/ Scan
    \/ LoadSkin

SpecSkin == InitSkin /\ [][NextSkin]_vars

----------------------------------------------------------------------------
(* Importing an AIMP package, then scanning and loading *)

\* largest number of directories in the skins root
MaxSkins == 2

\* skin.ini files: one that sets nothing, and one that moves points of the
\* scale, for the single meter and for each side
Inis ==
    {<< >>,
     [VU |-> [MinLevel |-> -10, MaxAngle |-> 40],
      VU_L |-> [MinLevel |-> -10],
      VU_R |-> [ZeroAngle |-> 18, MaxLevel |-> 5]]}

Package(baseName, fileName, files, ini) ==
    [exists |-> TRUE, extracts |-> TRUE, baseName |-> baseName, fileName |-> fileName,
     files |-> files, ini |-> ini]

\* the packages handed to importAimpZip: single and stereo AIMP skins, packages
\* without assets or without skin.ini, a file that is no ZIP and a missing file
Zips ==
    {Package("aimp", "aimp.zip", {"skin.ini"} \cup f, ini) :
        f \in {SingleAssets, StereoAssets, SingleAssets \cup StereoAssets, {"0.png"}},
        ini \in Inis}
        \cup {Package("a.b", "a.b.zip", {"skin.ini"} \cup SingleAssets, << >>),
              Package("aimp", "aimp.zip", SingleAssets, << >>),
              [Package("aimp", "aimp.zip", {}, << >>) EXCEPT !.extracts = FALSE],
              [Package("aimp", "aimp.zip", {}, << >>) EXCEPT !.exists = FALSE]}

\* SkinImporter::importAimpZip(zipFilePath)
ImportAimpZip ==
    /\ Cardinality(DOMAIN skinsRoot) < MaxSkins
    /\ \E zip \in Zips, io \in {"ok", "mkpath", "copy", "write"} :
          LET out == importAimpZip(skinsRoot, zip, io)
          IN  /\ imported' = out.result
              /\ skinsRoot' = out.root
    /\ UNCHANGED <<skins_, loaded>>
    /\ UNCHANGED <<platform, dspVars, sessionVars, scaleVars, twinVars, givenVars>>

\* the skins root is empty, or holds one skin written by hand
InitImport ==
    /\ platform = "linux"
    /\ state = FreshDspState
    /\ ballisticsL = BallisticsReset(FloorVu(platform))
    /\ ballisticsR = BallisticsReset(FloorVu(platform))
    /\ outVuL = FloorVu(platform)
    /\ outVuR = FloorVu(platform)
    /\ call = NoCall
    /\ refOptions = DefaultReferenceOptions
    /\ rate \in SampleRates
    /\ nCalls = 0
    /\ silenceOnly = FALSE
    /\ nSilent = 0
    /\ SessionConstructed
    /\ OneCaller
    /\ ScaleIdle
    /\ buffer = NoBuffer
    /\ \/ skinsRoot = << >>
       \/ skinsRoot = [d \in {"classic"} |-> SingleSkin(SchemaVersion, SingleFiles, SortedTable)]
    /\ skins_ = {}
    /\ loaded = NothingLoaded
    /\ imported = EmptyImportResult

NextImport ==
    \/ ImportAimpZip
    \/ Scan
    \/ LoadSkin

SpecImport == InitImport /\ [][NextImport]_vars

\* C28: a package importAimpZip reported ok = true for is listed by a scan()
\* of the skins root it left and loads with loadSkin(id).ok = true
C28_ImportedSkinIsListedAndLoads ==
    imported.ok =>
        /\ imported.skinName \in {i.id : i \in scan(skinsRoot)}
        /\ \A out \in loadSkin(scan(skinsRoot), skinsRoot, imported.skinName) : out.ok

\* a package was imported with ok = true, the skins root was scanned after it
\* and does not list it, and loadSkin of its name failed
C28_ImportedSkinNotListed ==
    /\ imported.ok
    /\ skins_ = scan(skinsRoot)
    /\ imported.skinName \notin {i.id : i \in skins_}
    /\ "classic" \in {i.id : i \in skins_}
    /\ loaded.skinId = imported.skinName
    /\ ~loaded.out.ok

----------------------------------------------------------------------------
(* Scale tables of a loaded skin *)

\* the scale tables of the meters of a loaded package
MeterTables(package) ==
    IF package.meters.kind = "single" THEN {package.meters.vu.scaleTable}
    ELSE {package.meters.left.scaleTable, package.meters.right.scaleTable}

Ascending(t) == \A i \in 1..(Len(t) - 1) : t[i][1] <= t[i + 1][1]

\* the value of "scaleTable" is an array of at least three objects with a
\* numeric angle and a numeric level
WellFormedScaleTable(v) ==
    /\ isArray(v)
    /\ Len(v.a) >= MinEntries
    /\ \A i \in 1..Len(v.a) :
          /\ isObject(v.a[i])
          /\ isDouble(jsonValue(v.a[i].o, "angle"))
          /\ isDouble(jsonValue(v.a[i].o, "level"))

\* the values of "scaleTable" of the meters of a skin.json
ScaleTablesOf(json) ==
    {jsonValue(json.o.meters.o[k].o, "scaleTable") : k \in DOMAIN json.o.meters.o}

\* C21: every scale table of the meters of a successfully loaded skin has at
\* least three control points and is ascending by level, whatever the order in
\* skin.json; a skin.json one of whose scaleTable values is no array, has fewer
\* than three entries or has an entry without numeric angle and level is never
\* loaded with ok = true, and a load that fails carries an error message
C21_LoadedTablesSortedAndStrict ==
    /\ loaded.out.ok =>
          /\ \A t \in MeterTables(loaded.out.package) :
                Len(t) >= MinEntries /\ Ascending(t)
          /\ \A v \in ScaleTablesOf(skinsRoot[loaded.skinId].json) :
                WellFormedScaleTable(v)
    /\ loaded.skinId # "" /\ ~loaded.out.ok => loaded.out.error # ""

\* a single skin whose scaleTable is out of order was loaded
C21_Witness ==
    /\ loaded.out.ok
    /\ skinsRoot[loaded.skinId] = SingleSkin(SchemaVersion, SingleFiles, UnsortedTable)
    /\ Len(loaded.out.package.meters.vu.scaleTable) = Len(UnsortedTable.a)

----------------------------------------------------------------------------
(* The capture session: the caller thread *)

backendVars == <<quit, mainloop_, context_, stream_, source_, lookups>>

deviceVars == <<options_, deviceType_, currentDeviceUID_>>

publishedVars == <<leftVuDb_, rightVuDb_>>

readerVars == <<readL, readR>>

eventVars == <<errorSurfaced, backendError>>

engineVars == <<state, ballisticsL, ballisticsR, outVuL, outVuR, call, refOptions,
                nCalls>>

fixedVars == <<platform, rate, silenceOnly, nSilent, scaleVars, skinVars, givenVars>>

\* where stop() returns to
AfterStop(o) ==
    IF o.name = "switch" THEN "sw_reset"
    ELSE IF o.name = "destroy" THEN "free"
    ELSE "idle"

\* where start() returns to
AfterStart(o) == IF o.name = "switch" THEN "sw_emit" ELSE "idle"

\* the caller begins start(), stop(), switchDevice(uid) or the destructor
Call ==
    /\ pc = "idle"
    /\ nOps < MaxOps
    /\ \/ op' = [name |-> "start", device |-> "", ok |-> FALSE] /\ pc' = "start_x"
       \/ op' = [name |-> "stop", device |-> "", ok |-> FALSE] /\ pc' = "stop_x"
       \/ \E uid \in Devices :
              op' = [name |-> "switch", device |-> uid, ok |-> FALSE] /\ pc' = "stop_x"
       \/ op' = [name |-> "destroy", device |-> "", ok |-> FALSE] /\ pc' = "stop_x"
    /\ nOps' = nOps + 1
    /\ deviceChanged' = NoSignal
    /\ UNCHANGED <<running_, thread_, cb, backendVars, deviceVars, publishedVars,
                   readerVars, eventVars, dspFreed, sinceSwitch, engineVars,
                   fixedVars, other, twin>>

\* a reference level a caller passes to setReferenceDbfs, in dBFS
ReferenceValues == {-6}

\* setReferenceDbfs(value): linux stores the level of the current device
\* type, macOS the one level it has; both switch the override on
SetReference(p, o, type, value) ==
    IF p = "linux"
    THEN IF type = kDeviceTypeMicrophone
         THEN [o EXCEPT !.microphoneReferenceDbfs = value,
                        !.referenceDbfsOverride = TRUE]
         ELSE [o EXCEPT !.monitorReferenceDbfs = value,
                        !.referenceDbfsOverride = TRUE]
    ELSE [o EXCEPT !.referenceDbfs = value, !.referenceDbfsOverride = TRUE]

\* the caller calls setReferenceDbfs between two other calls
SetReferenceDbfs ==
    /\ pc = "idle"
    /\ nOps < MaxOps
    /\ \E value \in ReferenceValues :
           options_' = SetReference(platform, options_, deviceType_, value)
    /\ nOps' = nOps + 1
    /\ deviceChanged' = NoSignal
    /\ UNCHANGED <<running_, thread_, cb, backendVars, pc, op, deviceType_,
                   currentDeviceUID_, publishedVars, readerVars, eventVars,
                   dspFreed, sinceSwitch, engineVars, fixedVars, other, twin>>

\* stop() with the test of its first line inverted
StopReturnsEarlyInverted(r) == r

\* stop(): if (!running_.exchange(false)) return
StopReturnsEarly(r) == ~r

StopExchange ==
    /\ pc = "stop_x"
    /\ running_' = FALSE
    /\ pc' = IF StopReturnsEarly(running_) THEN AfterStop(op) ELSE "stop_quit"
    /\ UNCHANGED <<thread_, cb, backendVars, op, deviceVars, publishedVars,
                   readerVars, eventVars, dspFreed, sinceSwitch, nOps, engineVars,
                   fixedVars, other, twin,
                   deviceChanged>>

\* stop(): pa_mainloop_quit / AudioQueueStop asked of the backend
StopQuit ==
    /\ pc = "stop_quit"
    /\ quit' = IF platform = "linux" THEN mainloop_ ELSE stream_ # "none"
    /\ pc' = "stop_join"
    /\ UNCHANGED <<running_, thread_, cb, mainloop_, context_, stream_, source_, lookups, op,
                   deviceVars, publishedVars, readerVars, eventVars, dspFreed,
                   sinceSwitch, nOps, engineVars, fixedVars, other, twin,
                   deviceChanged>>

\* a join that does not wait
JoinReturnsAtOnce(t) == TRUE

\* thread_.join() / the synchronous AudioQueueStop return once the audio
\* thread has left its run loop
JoinReturns(t) == t # "alive"

StopJoin ==
    /\ pc = "stop_join"
    /\ JoinReturns(thread_)
    /\ thread_' = IF thread_ = "finished" THEN "none" ELSE thread_
    /\ pc' = "stop_release"
    /\ UNCHANGED <<running_, cb, backendVars, op, deviceVars, publishedVars,
                   readerVars, eventVars, dspFreed, sinceSwitch, nOps, engineVars,
                   fixedVars, other, twin,
                   deviceChanged>>

\* stop(): the stream, the context and the mainloop (the audio queue and its
\* buffers) released
StopRelease ==
    /\ pc = "stop_release"
    /\ stream_' = "none"
    /\ source_' = ""
    /\ context_' = "none"
    /\ mainloop_' = FALSE
    /\ lookups' = <<>>
    /\ quit' = FALSE
    /\ pc' = AfterStop(op)
    /\ UNCHANGED <<running_, thread_, cb, op, deviceVars, publishedVars, readerVars,
                   eventVars, dspFreed, sinceSwitch, nOps, engineVars, fixedVars, other, twin,
                   deviceChanged>>

\* switchDevice after stop(): ballistics and published readings set to the
\* floor (with the DSP state, where the variant does that), options updated
SwitchReset ==
    /\ pc = "sw_reset"
    /\ ballisticsL' = BallisticsReset(FloorVu(platform))
    /\ ballisticsR' = BallisticsReset(FloorVu(platform))
    /\ leftVuDb_' = FloorVu(platform)
    /\ rightVuDb_' = FloorVu(platform)
    /\ state' = IF platform = "macos" THEN FreshDspState ELSE state
    /\ options_' = [options_ EXCEPT !.deviceName = op.device]
    /\ currentDeviceUID_' = IF platform = "linux" THEN op.device
                                                  ELSE currentDeviceUID_
    /\ sinceSwitch' = "fresh"
    /\ pc' = "start_x"
    /\ UNCHANGED <<running_, thread_, cb, backendVars, op, deviceType_, readerVars,
                   eventVars, dspFreed, nOps, outVuL, outVuR, call, refOptions,
                   nCalls, fixedVars, other, twin,
                   deviceChanged>>

\* start(): if (running_.exchange(true)) return true
StartExchange ==
    /\ pc = "start_x"
    /\ running_' = TRUE
    /\ IF running_
       THEN /\ op' = [op EXCEPT !.ok = TRUE]
            /\ pc' = AfterStart(op)
            /\ UNCHANGED eventVars
       ELSE /\ pc' = "start_create"
            /\ errorSurfaced' = FALSE
            /\ backendError' = FALSE
            /\ UNCHANGED op
    /\ UNCHANGED <<thread_, cb, backendVars, deviceVars, publishedVars, readerVars,
                   dspFreed, sinceSwitch, nOps, engineVars, fixedVars, other, twin,
                   deviceChanged>>

\* start(): a failure return with errorOut set and running_ cleared
StartFails ==
    /\ errorSurfaced' = TRUE
    /\ backendError' = TRUE
    /\ running_' = FALSE
    /\ op' = [op EXCEPT !.ok = FALSE]
    /\ pc' = AfterStart(op)

\* the device the macOS variant reports after a start without a device name
MacosDefaultInput == "default_input"

\* start(): the backend objects created and the audio thread started, or one
\* of them refused
StartCreate ==
    /\ pc = "start_create"
    /\ \/ /\ StartFails
          /\ UNCHANGED <<thread_, backendVars, currentDeviceUID_>>
       \/ /\ platform = "linux"
          /\ mainloop_' = TRUE
          /\ context_' = "connecting"
          /\ thread_' = "alive"
          /\ pc' = "start_wait"
          /\ UNCHANGED <<running_, quit, stream_, source_, lookups, op, eventVars,
                         currentDeviceUID_>>
       \/ /\ platform = "macos"
          /\ stream_' = "ready"
          /\ source_' = IF options_.deviceName # "" THEN options_.deviceName
                        ELSE MacosDefaultInput
          /\ thread_' = "alive"
          /\ currentDeviceUID_' =
                 IF options_.deviceName # "" THEN options_.deviceName
                 ELSE MacosDefaultInput
          /\ op' = [op EXCEPT !.ok = TRUE]
          /\ pc' = AfterStart(op)
          /\ UNCHANGED <<running_, quit, mainloop_, context_, lookups, eventVars>>
    /\ UNCHANGED <<cb, options_, deviceType_, publishedVars, readerVars, dspFreed,
                   sinceSwitch, nOps, engineVars, fixedVars, other, twin,
                   deviceChanged>>

\* start(): the wait for the context: ready, failed, or timed out
StartWait ==
    /\ pc = "start_wait"
    /\ \/ /\ context_ = "ready"
          /\ pc' = "start_lookup"
          /\ UNCHANGED <<quit, eventVars>>
       \/ /\ context_ # "ready"
          /\ errorSurfaced' = TRUE
          /\ backendError' = TRUE
          /\ quit' = TRUE
          /\ pc' = "start_abort"
    /\ UNCHANGED <<running_, thread_, cb, mainloop_, context_, stream_, source_, lookups, op,
                   deviceVars, publishedVars, readerVars, dspFreed, sinceSwitch,
                   nOps, engineVars, fixedVars, other, twin,
                   deviceChanged>>

\* start(): the clean-up of a failed wait: thread joined, context and
\* mainloop released, running_ cleared; a stream the context had already
\* created is left behind and delivers nothing more
StartAbort ==
    /\ pc = "start_abort"
    /\ JoinReturns(thread_)
    /\ thread_' = IF thread_ = "finished" THEN "none" ELSE thread_
    /\ context_' = "none"
    /\ mainloop_' = FALSE
    /\ lookups' = <<>>
    /\ quit' = FALSE
    /\ running_' = FALSE
    /\ stream_' = IF stream_ = "none" THEN "none" ELSE "stale"
    /\ UNCHANGED source_
    /\ op' = [op EXCEPT !.ok = FALSE]
    /\ pc' = AfterStart(op)
    /\ UNCHANGED <<cb, deviceVars, publishedVars, readerVars, eventVars,
                   dspFreed, sinceSwitch, nOps, engineVars, fixedVars, other, twin,
                   deviceChanged>>

\* names that end with ".monitor"
MonitorNames == {"alsa_output.monitor"}

\* sinkName.chop(8): the name without its ".monitor"
SinkOfMonitor(name) == IF name = "alsa_output.monitor" THEN "alsa_output" ELSE name

\* a lookup asked of the server: what is asked, and the name asked for
Lookup(query, name) == [query |-> query, name |-> name]

\* start(): the device type and the lookup that follow from the device name
StartLookup ==
    /\ pc = "start_lookup"
    /\ deviceType_' = IF options_.deviceName = "" THEN kDeviceTypeMonitor
                      ELSE IF options_.deviceName \in MonitorNames
                           THEN kDeviceTypeMonitor
                      ELSE kDeviceTypeMicrophone
    /\ lookups' = Append(lookups,
                         IF options_.deviceName = "" THEN Lookup("server_info", "")
                         ELSE IF options_.deviceName \in MonitorNames
                              THEN Lookup("sink_by_name",
                                          SinkOfMonitor(options_.deviceName))
                         ELSE Lookup("source_by_name", options_.deviceName))
    /\ op' = [op EXCEPT !.ok = TRUE]
    /\ pc' = AfterStart(op)
    /\ UNCHANGED <<running_, thread_, cb, quit, mainloop_, context_, stream_, source_,
                   options_, currentDeviceUID_, publishedVars, readerVars,
                   eventVars, dspFreed, sinceSwitch, nOps, engineVars, fixedVars, other, twin,
                   deviceChanged>>

\* the placeholder switchDevice reports for the default device
DefaultMonitorUID == "[default monitor]"

\* switchDevice after start(): on success currentDeviceUID_ is set (linux:
\* to "[default monitor]" for the default device; macOS: to deviceUID)
SwitchSetsCurrent ==
    /\ pc = "sw_emit"
    /\ currentDeviceUID_' =
           IF ~op.ok THEN currentDeviceUID_
           ELSE IF platform = "macos" THEN op.device
           ELSE IF op.device = "" THEN DefaultMonitorUID
           ELSE currentDeviceUID_
    /\ pc' = "sw_signal"
    /\ UNCHANGED <<running_, thread_, cb, backendVars, op, options_, deviceType_,
                   publishedVars, readerVars, eventVars, dspFreed, sinceSwitch,
                   nOps, engineVars, fixedVars, other, twin, deviceChanged>>

\* if (success) emit deviceChanged(...), with the test dropped
EmitsAlways(success) == TRUE

\* if (success) emit deviceChanged(...)
Emits(success) == success

\* the signal emitted: linux reads currentDeviceUID_, macOS passes deviceUID
Signal(p, uid, current) == IF p = "macos" THEN uid ELSE current

\* switchDevice: emit deviceChanged on success, and return success
SwitchEmit ==
    /\ pc = "sw_signal"
    /\ deviceChanged' =
           IF Emits(op.ok)
           THEN [count |-> deviceChanged.count + 1,
                 uid |-> Signal(platform, op.device, currentDeviceUID_)]
           ELSE deviceChanged
    /\ pc' = "idle"
    /\ UNCHANGED <<running_, thread_, cb, backendVars, op, deviceVars,
                   publishedVars, readerVars, eventVars, dspFreed, sinceSwitch,
                   nOps, engineVars, fixedVars, other, twin>>

\* ~AudioCapture after stop(): the DSP state destroyed
Free ==
    /\ pc = "free"
    /\ dspFreed' = TRUE
    /\ pc' = "dead"
    /\ UNCHANGED <<running_, thread_, cb, backendVars, op, deviceVars,
                   publishedVars, readerVars, eventVars, sinceSwitch, nOps,
                   engineVars, fixedVars, other, twin,
                   deviceChanged>>

\* a reader thread calls leftVuDb() or rightVuDb()
Read ==
    /\ pc # "dead"
    /\ \/ readL' = leftVuDb_ /\ UNCHANGED readR
       \/ readR' = rightVuDb_ /\ UNCHANGED readL
    /\ UNCHANGED <<running_, thread_, cb, backendVars, pc, op, deviceVars,
                   publishedVars, eventVars, dspFreed, sinceSwitch, nOps,
                   engineVars, fixedVars, other, twin,
                   deviceChanged>>

----------------------------------------------------------------------------
(* The capture session: the audio thread *)

\* context_state_callback, PA_CONTEXT_READY: a lookup chosen by deviceType_
\* and by whether a device name is set
ContextReady ==
    /\ platform = "linux"
    /\ thread_ = "alive"
    /\ cb = "idle"
    /\ context_ = "connecting"
    /\ context_' = "ready"
    /\ lookups' = Append(lookups,
                         IF deviceType_ = kDeviceTypeMicrophone
                         THEN IF options_.deviceName # ""
                              THEN Lookup("source_by_name", options_.deviceName)
                              ELSE Lookup("source_list", "")
                         ELSE IF options_.deviceName # ""
                              THEN Lookup("sink_by_name", options_.deviceName)
                              ELSE Lookup("sink_list", ""))
    /\ UNCHANGED <<running_, thread_, cb, quit, mainloop_, stream_, source_, pc, op,
                   deviceVars, publishedVars, readerVars, eventVars, dspFreed,
                   sinceSwitch, nOps, engineVars, fixedVars, other, twin,
                   deviceChanged>>

\* context_state_callback, PA_CONTEXT_FAILED: the error is emitted, nothing
\* else is touched
ContextFailed ==
    /\ platform = "linux"
    /\ thread_ = "alive"
    /\ cb = "idle"
    /\ context_ \in {"connecting", "ready"}
    /\ context_' = "failed"
    /\ errorSurfaced' = TRUE
    /\ backendError' = TRUE
    /\ UNCHANGED <<running_, thread_, cb, quit, mainloop_, stream_, source_, lookups, pc, op,
                   deviceVars, publishedVars, readerVars, dspFreed, sinceSwitch,
                   nOps, engineVars, fixedVars, other, twin,
                   deviceChanged>>

\* the sinks and the sources of the server; the monitor of a sink is a source
Sinks == {"alsa_output"}

Sources == {"alsa_input", "alsa_output.monitor"}

\* si->monitor_source_name
MonitorOf(sink) == "alsa_output.monitor"

\* info->default_sink_name
DefaultSink == "alsa_output"

\* the source names the answer to a lookup may carry: the monitor source of
\* the sink found, or the source found
FoundNames(l) ==
    IF l.query = "sink_by_name"
    THEN IF l.name \in Sinks THEN {MonitorOf(l.name)} ELSE {}
    ELSE IF l.query = "source_by_name"
    THEN IF l.name \in Sources THEN {l.name} ELSE {}
    ELSE IF l.query = "sink_list" THEN {MonitorOf(k) : k \in Sinks}
    ELSE Sources

\* the server answers the oldest lookup: sink_info_callback,
\* source_info_callback with create_stream_from_spec, or the server-info
\* lambda of start(); of a list, the entry answered last is the one that
\* stays in stream_
LookupAnswered ==
    /\ platform = "linux"
    /\ thread_ = "alive"
    /\ cb = "idle"
    /\ context_ = "ready"
    /\ lookups # <<>>
    /\ LET l == Head(lookups)
       IN  IF l.query = "server_info"
           THEN /\ \/ lookups' = Append(Tail(lookups),
                                        Lookup("sink_by_name", DefaultSink))
                   \/ lookups' = Tail(lookups)
                /\ UNCHANGED <<stream_, source_, currentDeviceUID_, eventVars>>
           ELSE /\ lookups' = Tail(lookups)
                /\ \/ \* is_last < 0 or no info
                      /\ errorSurfaced' = TRUE
                      /\ backendError' = TRUE
                      /\ UNCHANGED <<stream_, source_, currentDeviceUID_>>
                   \/ \* is_last > 0: the end of a list
                      /\ l.query \in {"sink_list", "source_list"}
                      /\ UNCHANGED <<stream_, source_, currentDeviceUID_, eventVars>>
                   \/ \E found \in FoundNames(l) :
                        /\ currentDeviceUID_' = found
                        /\ \/ \* the stream cannot be created
                              /\ stream_' = "none"
                              /\ source_' = ""
                              /\ errorSurfaced' = TRUE
                              /\ backendError' = TRUE
                           \/ \* the stream cannot be connected
                              /\ stream_' = "unconnected"
                              /\ source_' = ""
                              /\ errorSurfaced' = TRUE
                              /\ backendError' = TRUE
                           \/ /\ stream_' = "ready"
                              /\ source_' = found
                              /\ UNCHANGED eventVars
    /\ UNCHANGED <<running_, thread_, cb, quit, mainloop_, context_, pc, op,
                   options_, deviceType_, publishedVars, readerVars, dspFreed,
                   sinceSwitch, nOps, engineVars, fixedVars, other, twin,
                   deviceChanged>>

\* stream_state_callback, PA_STREAM_FAILED: the error is emitted, nothing
\* else is touched
StreamFailed ==
    /\ platform = "linux"
    /\ thread_ = "alive"
    /\ stream_ = "ready"
    /\ cb = "idle"
    /\ stream_' = "failed"
    /\ UNCHANGED source_
    /\ errorSurfaced' = TRUE
    /\ backendError' = TRUE
    /\ UNCHANGED <<running_, thread_, cb, quit, mainloop_, context_, lookups, pc,
                   op, deviceVars, publishedVars, readerVars, dspFreed, sinceSwitch,
                   nOps, engineVars, fixedVars, other, twin,
                   deviceChanged>>

\* the reference the callback hands to the engine, with the device type of
\* the options in place of the current one
SessionReferenceOfOptions(p, o, type) ==
    [referenceDbfs |-> IF p = "linux" /\ o.deviceType = kDeviceTypeMicrophone
                       THEN o.microphoneReferenceDbfs
                       ELSE IF p = "linux" THEN o.monitorReferenceDbfs
                       ELSE o.referenceDbfs,
     referenceDbfsOverride |-> o.referenceDbfsOverride,
     deviceType |-> o.deviceType]

\* effectiveReferenceDbfs() (linux), referenceDbfs() (macOS): the reference
\* level the session reports for its current device type
effectiveReferenceDbfs(p, o, type) ==
    IF p = "linux"
    THEN IF type = kDeviceTypeMicrophone THEN o.microphoneReferenceDbfs
         ELSE o.monitorReferenceDbfs
    ELSE o.referenceDbfs

\* the buffers the backend delivers: one stereo frame, loud or silent, and on
\* macOS also a buffer of no frames
SessionBuffers(p) ==
    {[frames |-> 1, sL |-> 10000, sR |-> 10000],
     [frames |-> 1, sL |-> 0, sR |-> 0]}
    \cup (IF p = "macos" THEN {[frames |-> 0, sL |-> 0, sR |-> 0]} ELSE {})

\* the reference the callback hands to the engine
SessionReference(p, o, type) ==
    IF p = "linux"
    THEN [referenceDbfs |-> IF type = kDeviceTypeMicrophone
                            THEN o.microphoneReferenceDbfs
                            ELSE o.monitorReferenceDbfs,
          referenceDbfsOverride |-> o.referenceDbfsOverride,
          deviceType |-> type]
    ELSE [referenceDbfs |-> o.referenceDbfs,
          referenceDbfsOverride |-> o.referenceDbfsOverride,
          deviceType |-> o.deviceType]

\* the backend enters stream_read_callback / audioInputCallback; the macOS
\* callback returns at once when running_ is false
CallbackBegins ==
    /\ thread_ = "alive"
    /\ stream_ = "ready"
    /\ cb = "idle"
    /\ nCalls < MaxCalls
    /\ platform = "macos" => running_
    /\ cb' = "engine"
    /\ UNCHANGED <<running_, thread_, backendVars, pc, op, deviceVars,
                   publishedVars, readerVars, eventVars, dspFreed, sinceSwitch,
                   nOps, engineVars, fixedVars, other, twin,
                   deviceChanged>>

\* the callback runs the engine on the delivered buffer
CallbackEngine ==
    /\ cb = "engine"
    /\ \E b \in SessionBuffers(platform) :
          LET r == SessionReference(platform, options_, deviceType_)
          IN  /\ Apply(IF b.frames = 0 THEN "malformed" ELSE "run", 2,
                       processInterleavedFloatAudioToVuDb(
                           Interleaved(b.frames, 2, b.sL, b.sR), b.frames, 2,
                           rate, r, ballisticsL, ballisticsR, state,
                           FloorVu(platform), CeilingVu(platform)))
              /\ refOptions' = r
    /\ nCalls' = nCalls + 1
    /\ sinceSwitch' = IF sinceSwitch = "fresh" THEN "used" ELSE sinceSwitch
    /\ cb' = "storeL"
    /\ UNCHANGED <<running_, thread_, backendVars, pc, op, deviceVars,
                   publishedVars, readerVars, eventVars, dspFreed, nOps,
                   fixedVars, other, twin,
                   deviceChanged>>

\* leftVuDb_.store(vuL)
CallbackStoresLeft ==
    /\ cb = "storeL"
    /\ leftVuDb_' = outVuL
    /\ cb' = "storeR"
    /\ UNCHANGED <<running_, thread_, backendVars, pc, op, deviceVars, rightVuDb_,
                   readerVars, eventVars, dspFreed, sinceSwitch, nOps, engineVars,
                   fixedVars, other, twin,
                   deviceChanged>>

\* rightVuDb_.store(vuR), and the callback returns
CallbackStoresRight ==
    /\ cb = "storeR"
    /\ rightVuDb_' = outVuR
    /\ cb' = "idle"
    /\ UNCHANGED <<running_, thread_, backendVars, pc, op, deviceVars, leftVuDb_,
                   readerVars, eventVars, dspFreed, sinceSwitch, nOps, engineVars,
                   fixedVars, other, twin,
                   deviceChanged>>

\* the callbacks of the mainloop thread run one at a time: each action of
\* the audio thread but the steps inside a callback waits for cb = "idle"

\* the audio thread leaves its run loop once asked to quit, between callbacks
ThreadExits ==
    /\ thread_ = "alive"
    /\ quit
    /\ cb = "idle"
    /\ thread_' = "finished"
    /\ UNCHANGED <<running_, cb, backendVars, pc, op, deviceVars, publishedVars,
                   readerVars, eventVars, dspFreed, sinceSwitch, nOps, engineVars,
                   fixedVars, other, twin,
                   deviceChanged>>

----------------------------------------------------------------------------
(* The capture session as a whole *)

Init ==
    /\ platform \in Platforms
    /\ state = FreshDspState
    /\ ballisticsL = BallisticsReset(FloorVu(platform))
    /\ ballisticsR = BallisticsReset(FloorVu(platform))
    /\ outVuL = FloorVu(platform)
    /\ outVuR = FloorVu(platform)
    /\ call = NoCall
    /\ refOptions = DefaultReferenceOptions
    /\ rate \in SampleRates
    /\ nCalls = 0
    /\ silenceOnly = FALSE
    /\ nSilent = 0
    /\ SessionConstructed
    /\ ScaleIdle
    /\ SkinIdle
    /\ buffer = NoBuffer
    /\ OneCaller

Next ==
    \/ Call
    \/ StopExchange
    \/ StopQuit
    \/ StopJoin
    \/ StopRelease
    \/ SwitchReset
    \/ StartExchange
    \/ StartCreate
    \/ StartWait
    \/ StartAbort
    \/ StartLookup
    \/ SetReferenceDbfs
    \/ SwitchSetsCurrent
    \/ SwitchEmit
    \/ Free
    \/ Read
    \/ ContextReady
    \/ ContextFailed
    \/ LookupAnswered
    \/ StreamFailed
    \/ CallbackBegins
    \/ CallbackEngine
    \/ CallbackStoresLeft
    \/ CallbackStoresRight
    \/ ThreadExits

Spec == Init /\ [][Next]_vars

\* where a caller thread waits: between calls, in thread_.join() and in the
\* sleep of start()'s poll loop
Waits(at) == at \in {"idle", "stop_join", "start_wait"}

\* the caller thread waits, and the other caller thread runs
Preempt ==
    /\ other # NoCaller
    /\ Waits(pc)
    /\ pc' = other.pc
    /\ op' = other.op
    /\ other' = [pc |-> pc, op |-> op]
    /\ UNCHANGED <<running_, thread_, cb, backendVars, deviceVars, publishedVars,
                   readerVars, eventVars, dspFreed, sinceSwitch, nOps, engineVars,
                   fixedVars, deviceChanged, twin>>

\* a session used from two threads: both are between calls
InitOverlap ==
    /\ platform \in Platforms
    /\ state = FreshDspState
    /\ ballisticsL = BallisticsReset(FloorVu(platform))
    /\ ballisticsR = BallisticsReset(FloorVu(platform))
    /\ outVuL = FloorVu(platform)
    /\ outVuR = FloorVu(platform)
    /\ call = NoCall
    /\ refOptions = DefaultReferenceOptions
    /\ rate \in SampleRates
    /\ nCalls = 0
    /\ silenceOnly = FALSE
    /\ nSilent = 0
    /\ SessionConstructed
    /\ ScaleIdle
    /\ SkinIdle
    /\ buffer = NoBuffer
    /\ other = [pc |-> "idle", op |-> NoOp]
    /\ twin = NoTwin

NextOverlap ==
    \/ Next
    \/ Preempt

SpecOverlap == InitOverlap /\ [][NextOverlap]_vars

\* the options a session may be constructed with: either device type, with
\* or without a device name
SelectedOptions ==
    {[DefaultOptions EXCEPT !.deviceType = t, !.deviceName = n] :
        t \in {kDeviceTypeMonitor, kDeviceTypeMicrophone}, n \in Devices}

InitSelected ==
    /\ platform \in Platforms
    /\ state = FreshDspState
    /\ ballisticsL = BallisticsReset(FloorVu(platform))
    /\ ballisticsR = BallisticsReset(FloorVu(platform))
    /\ outVuL = FloorVu(platform)
    /\ outVuR = FloorVu(platform)
    /\ call = NoCall
    /\ refOptions = DefaultReferenceOptions
    /\ rate \in SampleRates
    /\ nCalls = 0
    /\ silenceOnly = FALSE
    /\ nSilent = 0
    /\ \E o \in SelectedOptions : Constructed(o)
    /\ ScaleIdle
    /\ SkinIdle
    /\ buffer = NoBuffer
    /\ OneCaller

SpecSelected == InitSelected /\ [][Next]_vars

----------------------------------------------------------------------------
(* The engine's contract *)

\* C1: a call with no data, frames = 0, channels = 0 or sampleRate <= 0 sets
\* both outputs to minVu and leaves the DSP state and both ballistics as
\* they were.
C1_GuardTouchesNothing ==
    [][call'.kind = "malformed" =>
          /\ outVuL' = FloorVu(platform)
          /\ outVuR' = FloorVu(platform)
          /\ state' = state
          /\ ballisticsL' = ballisticsL
          /\ ballisticsR' = ballisticsR]_vars

\* C1 happens: a malformed call was made on a state that earlier buffers
\* had moved away from the fresh one
C1_Witness ==
    /\ call.kind = "malformed"
    /\ state.meterAwake
    /\ state.rmsL_smooth > 0
    /\ ballisticsL > FloorVu(platform)

\* C2: every call that passes the guard returns both values within
\* [minVu, maxVu].
C2_OutputsClamped ==
    call.kind = "run" =>
        /\ FloorVu(platform) <= outVuL /\ outVuL <= CeilingVu(platform)
        /\ FloorVu(platform) <= outVuR /\ outVuR <= CeilingVu(platform)

\* C2 happens: the needle itself went past the top of the range on one
\* channel and below the bottom on the other, and the outputs sit on the ends
C2_Witness ==
    /\ call.kind = "run"
    /\ ballisticsL > CeilingVu(platform) /\ outVuL = CeilingVu(platform)
    /\ ballisticsR < FloorVu(platform) /\ outVuR = FloorVu(platform)

\* C3: from a cold start, the first buffer whose smoothed RMS exceeds 0.002
\* on either channel resets both ballistics to their target before the
\* ballistics step, so that very call returns the targets (clamped), and the
\* wake reset is performed in no other call.
C3_WakeSnap ==
    [][call'.kind = "run" =>
          /\ call'.wake <=>
                 /\ ~state.meterAwake
                 /\ (call'.rmsL_vu > AwakeLevel \/ call'.rmsR_vu > AwakeLevel)
          /\ call'.wake =>
                 /\ state'.meterAwake
                 /\ ballisticsL' = call'.targetVuL
                 /\ ballisticsR' = call'.targetVuR
                 /\ outVuL' = Clamp(call'.targetVuL, FloorVu(platform),
                                    CeilingVu(platform))
                 /\ outVuR' = Clamp(call'.targetVuR, FloorVu(platform),
                                    CeilingVu(platform))]_vars

\* C3 happens: a call woke the meter on the strength of one channel alone and
\* returned that channel's target, which lies inside the range
C3_Witness ==
    /\ call.kind = "run" /\ call.wake
    /\ call.rmsL_vu > AwakeLevel /\ call.rmsR_vu = 0
    /\ FloorVu(platform) < outVuL /\ outVuL < CeilingVu(platform)
    /\ outVuL = call.targetVuL

\* C4: inside the engine meterAwake only goes from false to true: once it is
\* true, no call clears it or performs the wake reset again; only a reset
\* from outside re-arms it.
C4_AwakeIsOneShot ==
    [][state.meterAwake =>
          \/ call'.kind = "reset"
          \/ state'.meterAwake /\ ~call'.wake]_vars

\* C4 happens: an awake meter was given another buffer above the wake level
\* and ramped towards its target instead of snapping to it
C4_Witness ==
    /\ call.kind = "run" /\ ~call.wake /\ state.meterAwake
    /\ call.rmsL_vu > AwakeLevel
    /\ ballisticsL # call.targetVuL

\* C10: fed only all-zero buffers (of any length and channel count), the
\* engine returns minVu on both channels in every call from the
\* SettleCalls-th on, and every call on the way returns finite values: the
\* level handed to the ballistics is never below 20*log10(eps) minus the
\* reference, and the outputs stay in the range.
C10_SilenceSettles ==
    silenceOnly /\ call.kind = "run" =>
        /\ call.targetVuL >= EpsDb - EffectiveRefDbfs(refOptions)
        /\ call.targetVuR >= EpsDb - EffectiveRefDbfs(refOptions)
        /\ outVuL \in FloorVu(platform)..CeilingVu(platform)
        /\ outVuR \in FloorVu(platform)..CeilingVu(platform)
        /\ nSilent >= SettleCalls =>
               outVuL = FloorVu(platform) /\ outVuR = FloorVu(platform)

\* C10 happens: silence began after a loud buffer had put the needle at the
\* top of the range, and SettleCalls silent calls have brought it to the floor
C10_Witness ==
    /\ silenceOnly /\ call.kind = "run"
    /\ state.meterAwake
    /\ nSilent >= SettleCalls
    /\ outVuL = FloorVu(platform) /\ outVuR = FloorVu(platform)

----------------------------------------------------------------------------
(* The capture session's contract *)

\* C5: after switchDevice has reset the session, and until the first buffer of
\* the new device is processed, both ballistics are at the floor and the DSP
\* state is zero/false (prevL = prevR = 0, rmsL_smooth = rmsR_smooth = 0,
\* meterAwake = false), on every platform.
C5_SwitchResetsDspState ==
    sinceSwitch = "fresh" =>
        /\ ballisticsL = BallisticsReset(FloorVu(platform))
        /\ ballisticsR = BallisticsReset(FloorVu(platform))
        /\ state = FreshDspState

\* C5 fails: on linux a device switch has just reset the session and no
\* buffer of the new device has been processed, yet the DSP state still holds
\* what the old device left: the meter is awake and the wake snap not re-armed
C5_StaleStateAfterSwitch ==
    /\ platform = "linux"
    /\ sinceSwitch = "fresh" /\ pc = "idle" /\ op.name = "switch"
    /\ state.meterAwake /\ state.prevL # 0

\* C6: while switchDevice resets the ballistics, the published readings and
\* the DSP state, and until it has started the new capture, the audio thread
\* has been joined and no callback is inside the engine or past it.
C6_ThreadJoinedBeforeReset ==
    (op.name = "switch" /\ pc \in {"sw_reset", "start_x", "start_create"}) =>
        thread_ = "none" /\ cb = "idle"

\* C6 happens: switchDevice is about to reset the state of a session whose
\* audio thread had run the engine on a loud buffer
C6_Witness ==
    /\ pc = "sw_reset"
    /\ state.meterAwake
    /\ thread_ = "none" /\ cb = "idle"

\* C7: whenever a backend error has occurred (during start or while running)
\* and the caller is in no operation, the running flag is false and the error
\* has been surfaced.
C7_ErrorMeansStopped ==
    (backendError /\ pc = "idle") => (~running_ /\ errorSurfaced)

\* C7 fails: start() has returned success, a backend error has since been
\* emitted, and the session still counts as running with its thread alive
C7_RunningAfterError ==
    /\ pc = "idle" /\ op.name = "start" /\ op.ok
    /\ backendError /\ errorSurfaced
    /\ running_ /\ thread_ = "alive"
    /\ stream_ # "ready"

\* C8: while the audio thread lives or a callback is in flight, nothing the
\* callback touches has been released, freed or put up for reset: the DSP
\* state is not freed, the caller is not past a join, the mainloop and the
\* context are held, and the stream a callback reads from is there.
C8_NoCallbackAfterRelease ==
    (thread_ = "alive" \/ cb # "idle") =>
        /\ ~dspFreed
        /\ pc \notin {"stop_release", "sw_reset", "free", "dead"}
        /\ platform = "linux" => (mainloop_ /\ context_ # "none")
        /\ cb # "idle" => stream_ = "ready"

\* C8 happens: the destructor has stopped a session whose callbacks had run
\* the engine on a loud buffer, released the backend and freed the DSP state
C8_Witness ==
    /\ pc = "dead" /\ dspFreed
    /\ state.meterAwake
    /\ thread_ = "none" /\ cb = "idle"
    /\ stream_ = "none" /\ ~mainloop_

\* C9: the published readings, and every value a reader has obtained from
\* leftVuDb() or rightVuDb(), lie in [floor, ceiling], whatever the
\* interleaving of callbacks, device switches and reads.
C9_ReadingsInRange ==
    /\ leftVuDb_ \in FloorVu(platform)..CeilingVu(platform)
    /\ rightVuDb_ \in FloorVu(platform)..CeilingVu(platform)
    /\ readL \in FloorVu(platform)..CeilingVu(platform)
    /\ readR \in FloorVu(platform)..CeilingVu(platform)

\* C9 happens: a reader holds a left value above the floor and a right value
\* of another buffer (every buffer of the session has equal channels, so
\* unequal readings come from different stores)
C9_Witness ==
    /\ readL > FloorVu(platform)
    /\ readR # readL

----------------------------------------------------------------------------
(* The engine's contract, for any passed state *)

ReferenceSteps == {3}

\* C12: in each call the target VU of both channels is the dBFS of the
\* smoothed RMS minus one effective reference: referenceDbfs verbatim when
\* referenceDbfsOverride is set, otherwise 0 for a microphone (device type 1)
\* and -14 for system output, whatever referenceDbfs holds; and on the same
\* state and (mono) buffer an override reference raised by X dB gives targets
\* lower by X dB, with the same smoothed RMS.
C12_ReferenceSelection ==
    /\ call.kind = "run" =>
           LET effective ==
                   IF refOptions.referenceDbfsOverride
                   THEN refOptions.referenceDbfs
                   ELSE IF refOptions.deviceType = kDeviceTypeMicrophone
                        THEN MicrophoneDefaultRefDbfs
                        ELSE MonitorDefaultRefDbfs
           IN  /\ call.targetVuL = Dbfs(call.rmsL_vu) - effective
               /\ call.targetVuR = Dbfs(call.rmsR_vu) - effective
    /\ \A frames \in FrameCounts, s \in Samples, X \in ReferenceSteps :
           LET lo == [refOptions EXCEPT !.referenceDbfsOverride = TRUE]
               hi == [lo EXCEPT !.referenceDbfs = @ + X]
               a  == processInterleavedFloatAudioToVuDb(
                         Interleaved(frames, 1, s, s), frames, 1, rate, lo,
                         ballisticsL, ballisticsR, state,
                         FloorVu(platform), CeilingVu(platform))
               b  == processInterleavedFloatAudioToVuDb(
                         Interleaved(frames, 1, s, s), frames, 1, rate, hi,
                         ballisticsL, ballisticsR, state,
                         FloorVu(platform), CeilingVu(platform))
           IN  /\ b.rmsL_vu = a.rmsL_vu /\ b.rmsR_vu = a.rmsR_vu
               /\ b.targetVuL = a.targetVuL - X
               /\ b.targetVuR = a.targetVuR - X

\* C12 happens: a call made with the override set and a stored level other
\* than either default has a target above the top of the range (the
\* reference acts before the clamp), and the output sits on the top
C12_Witness ==
    /\ call.kind = "run"
    /\ refOptions.referenceDbfsOverride
    /\ refOptions.referenceDbfs \notin {MicrophoneDefaultRefDbfs,
                                        MonitorDefaultRefDbfs}
    /\ call.rmsL_vu > 0
    /\ call.targetVuL = Dbfs(call.rmsL_vu) - refOptions.referenceDbfs
    /\ call.targetVuL > CeilingVu(platform)
    /\ outVuL = CeilingVu(platform)

----------------------------------------------------------------------------
(* Device type selection *)

\* C15: device type 1 selects the microphone and device type 0 the monitor
\* of a sink, whether or not a device name is given: the stream of a linux
\* session is connected to a monitor source exactly when the selected type
\* is 0, and every engine call of a session sees the selected type
C15_SelectedTypeIsCaptured ==
    /\ (platform = "linux" /\ stream_ = "ready")
          => (source_ \in MonitorNames
                 <=> options_.deviceType = kDeviceTypeMonitor)
    /\ nCalls > 0 => refOptions.deviceType = options_.deviceType

\* a session constructed for the microphone with no device name captures
\* the monitor of the default sink and hands the monitor type to the engine
C15_MicrophoneSelectedMonitorCaptured ==
    /\ platform = "linux"
    /\ options_.deviceType = kDeviceTypeMicrophone
    /\ options_.deviceName = ""
    /\ sinceSwitch = "none"
    /\ stream_ = "ready"
    /\ source_ \in MonitorNames
    /\ call.kind = "run"
    /\ refOptions.deviceType = kDeviceTypeMonitor

----------------------------------------------------------------------------
(* The deviceChanged signal *)

\* C16: deviceChanged is emitted exactly once for each switchDevice call that
\* returns true, carrying the identifier the session reports as current when
\* the call returns, and it is emitted by no switchDevice call that returns
\* false and by no other step: a call begins with no signal counted, the
\* step on which a successful switchDevice returns counts one, and no other
\* step counts any.
C16_DeviceChangedOncePerSwitch ==
    [][IF pc = "sw_signal" /\ pc' = "idle" /\ op.ok
       THEN /\ deviceChanged.count = 0
            /\ deviceChanged'.count = 1
            /\ deviceChanged'.uid = currentDeviceUID_'
       ELSE IF nOps' # nOps
       THEN deviceChanged' = NoSignal
       ELSE deviceChanged' = deviceChanged]_vars

\* a switchDevice to a named device has returned true, as the second
\* operation of the session: one signal, carrying the identifier reported
C16_Witness ==
    /\ pc = "idle"
    /\ nOps = 2
    /\ op.name = "switch" /\ op.ok /\ op.device # ""
    /\ deviceChanged.count = 1
    /\ deviceChanged.uid = currentDeviceUID_

----------------------------------------------------------------------------
(* Overlapping calls *)

\* the step of start() that creates the backend objects and the audio thread
StartCreates == pc = "start_create" /\ (pc' = "start_wait" \/ op'.ok)

\* the step of start() that, after a failed wait, unrefs the context and
\* frees the mainloop
StartReleases == pc = "start_abort" /\ pc' # "start_abort"

\* C17: overlapping switchDevice, start and stop calls of two threads
\* serialize, so that a session has at most one audio thread and one backend
\* connection, none leaked and none freed twice: start() creates the thread,
\* the mainloop and the context only when the session holds none, and
\* releases the context and the mainloop only while the session holds them.
C17_OverlappingCallsSerialize ==
    [][/\ StartCreates => (thread_ = "none" /\ ~mainloop_ /\ context_ = "none")
       /\ StartReleases => (mainloop_ /\ context_ # "none")]_vars

\* start() of one thread slept in its poll loop while stop() of another
\* thread released the context and the mainloop; start() found no ready
\* context and is about to unref the context and free the mainloop again
C17_StartReleasesWhatStopReleased ==
    /\ platform = "linux"
    /\ pc = "start_abort"
    /\ op.name = "start"
    /\ other.op.name = "stop"
    /\ other.pc = "idle"
    /\ ~mainloop_
    /\ context_ = "none"

----------------------------------------------------------------------------
(* The buffer callback *)

\* C18: for every buffer delivered the callback runs the engine exactly once,
\* with the device type, the reference level of that device type and the
\* override flag as they are at that moment, then stores the left and the
\* right result of that call as the published readings, and only then does
\* the next buffer enter; nothing but the callback runs the engine.
C18_OneEngineCallPerBuffer ==
    [][/\ nCalls' # nCalls => cb = "engine"
       /\ (cb = "idle" /\ cb' # "idle") => cb' = "engine"
       /\ (cb = "engine" /\ cb' # "engine") =>
             /\ cb' = "storeL"
             /\ nCalls' = nCalls + 1
             /\ call'.kind \in {"run", "malformed"}
             /\ refOptions'.deviceType =
                    (IF platform = "linux" THEN deviceType_
                     ELSE options_.deviceType)
             /\ refOptions'.referenceDbfs =
                    effectiveReferenceDbfs(platform, options_, deviceType_)
             /\ refOptions'.referenceDbfsOverride = options_.referenceDbfsOverride
       /\ (cb = "storeL" /\ cb' # "storeL") =>
             /\ cb' = "storeR"
             /\ leftVuDb_' = outVuL
             /\ nCalls' = nCalls
       /\ (cb = "storeR" /\ cb' # "storeR") =>
             /\ cb' = "idle"
             /\ rightVuDb_' = outVuR
             /\ leftVuDb_ = outVuL
             /\ nCalls' = nCalls]_vars

\* a linux session was switched to the microphone and has published both
\* results of its second buffer, processed with the microphone's reference
C18_Witness ==
    /\ platform = "linux"
    /\ cb = "idle"
    /\ nCalls = 2
    /\ call.kind = "run"
    /\ deviceType_ = kDeviceTypeMicrophone
    /\ options_.deviceType = kDeviceTypeMonitor
    /\ refOptions.deviceType = kDeviceTypeMicrophone
    /\ refOptions.referenceDbfs = options_.microphoneReferenceDbfs
    /\ leftVuDb_ = outVuL
    /\ rightVuDb_ = outVuR
    /\ outVuL > FloorVu(platform)

----------------------------------------------------------------------------
(* The engine has no state of its own *)

\* the second run has the first run's DSP state, ballistics and outputs
TwinAgrees ==
    /\ twin.state = state
    /\ twin.ballisticsL = ballisticsL
    /\ twin.ballisticsR = ballisticsR
    /\ twin.outVuL = outVuL
    /\ twin.outVuR = outVuR

\* the second run's DSP state, ballistics and outputs
TwinDsp == <<twin.state, twin.ballisticsL, twin.ballisticsR, twin.outVuL, twin.outVuR>>

----------------------------------------------------------------------------
(* The smoothed powers *)

\* C20: after any call of the engine on a DSP state whose two smoothed
\* powers are >= 0, both smoothed powers are still >= 0; the buffer time dt
\* of every call is positive and at most 50 ms, and the smoothing weight
\* alpha lies strictly between 0 and 1.
C20_SmoothedPowersNonNegative ==
    /\ state.rmsL_smooth >= 0
    /\ state.rmsR_smooth >= 0
    /\ \A frames \in FrameCounts :
          LET dt == BufferDt(frames, rate)
          IN  /\ 0 < dt /\ dt <= DtClampMs
              /\ 0 < Alpha(dt) /\ Alpha(dt) < WeightScale

\* a call on a state with power on the left only: the left power has decayed
\* towards a quieter buffer and is still positive, the right one has risen
C20_Witness ==
    /\ nCalls = 1
    /\ call.kind = "run"
    /\ 0 < state.rmsL_smooth
    /\ state.rmsL_smooth < AmpScale * AmpScale
    /\ 0 < state.rmsR_smooth

----------------------------------------------------------------------------
(* One capture stream *)

\* the server's answer to a sink or source lookup reaches its callback
LookupStep ==
    /\ platform = "linux"
    /\ lookups # <<>>
    /\ Head(lookups).query # "server_info"
    /\ lookups' = Tail(lookups)
    /\ context_ = "ready" /\ context_' = "ready"
    /\ thread_ = "alive" /\ thread_' = "alive"
    /\ cb = "idle" /\ cb' = "idle"
    /\ pc' = pc

\* C23: the lookups of one start() create and connect at most one capture
\* stream: a lookup answered while a stream is connected leaves stream_
\* and the source it is connected to as they are, and a lookup by name
\* answered then is a failed one
C23_OneStreamPerStart ==
    [][(LookupStep /\ stream_ = "ready") =>
          /\ stream_' = stream_
          /\ source_' = source_
          /\ Head(lookups).query \in {"sink_by_name", "source_by_name"} =>
                backendError']_vars

\* start() has returned true, a stream is connected, and a second lookup of
\* the same start() is still to be answered
C23_SecondLookupPending ==
    /\ platform = "linux"
    /\ running_
    /\ pc = "idle"
    /\ op.name = "start"
    /\ op.ok
    /\ stream_ = "ready"
    /\ lookups # <<>>
    /\ Head(lookups).query # "server_info"

----------------------------------------------------------------------------
(* Fields shared between the caller and the audio thread *)

\* the caller calls a setter of the reference level
SetterStep == pc = "idle" /\ pc' = "idle" /\ nOps' # nOps

\* C24: while the session runs no field the audio thread uses is accessed by
\* the caller at the same time, unless it is atomic: a setter writes options_
\* only when no buffer callback is about to read it, and a lookup callback
\* writes currentDeviceUID_ only when switchDevice is not between start() and
\* its emit, where it writes and reads that field
C24_NoUnorderedAccess ==
    [][/\ SetterStep => cb # "engine"
       /\ (LookupStep /\ currentDeviceUID_' # currentDeviceUID_) =>
             pc \notin {"sw_emit", "sw_signal"}]_vars

\* a buffer callback has begun and is about to read options_, which a setter
\* has written since start() was called
C24_SetterDuringCallback ==
    /\ running_
    /\ cb = "engine"
    /\ pc = "idle"
    /\ op.name = "start"
    /\ options_.referenceDbfsOverride

----------------------------------------------------------------------------
(* Reference levels loaded from the persisted settings *)

\* the reference levels QSettings holds when a session is constructed: none, or
\* what saveReferenceLevels() stored after a setter call of an earlier session
PersistedSettings ==
    {<< >>} \cup
    {[microphoneReferenceDbfs |-> m, monitorReferenceDbfs |-> n] :
        m \in {0} \cup ReferenceValues, n \in {-14} \cup ReferenceValues}

\* loadReferenceLevels(): the per-type levels of the settings, 0.0 and -14.0
\* where the settings hold none
loadReferenceLevels(o, settings) ==
    [o EXCEPT
        !.microphoneReferenceDbfs =
            IF "microphoneReferenceDbfs" \in DOMAIN settings
            THEN settings.microphoneReferenceDbfs ELSE 0,
        !.monitorReferenceDbfs =
            IF "monitorReferenceDbfs" \in DOMAIN settings
            THEN settings.monitorReferenceDbfs ELSE -14]

\* a session constructed with default options; the linux constructor loads the
\* per-type levels from the persisted settings
InitPersisted ==
    /\ platform \in Platforms
    /\ state = FreshDspState
    /\ ballisticsL = BallisticsReset(FloorVu(platform))
    /\ ballisticsR = BallisticsReset(FloorVu(platform))
    /\ outVuL = FloorVu(platform)
    /\ outVuR = FloorVu(platform)
    /\ call = NoCall
    /\ refOptions = DefaultReferenceOptions
    /\ rate \in SampleRates
    /\ nCalls = 0
    /\ silenceOnly = FALSE
    /\ nSilent = 0
    /\ \E settings \in PersistedSettings :
          Constructed(IF platform = "linux"
                      THEN loadReferenceLevels(DefaultOptions, settings)
                      ELSE DefaultOptions)
    /\ ScaleIdle
    /\ SkinIdle
    /\ buffer = NoBuffer
    /\ OneCaller

SpecPersisted == InitPersisted /\ [][Next]_vars

\* C25: the reference level the engine subtracts for a buffer is what
\* effectiveReferenceDbfs() returns at that moment for the current device
\* type, also when the per-type levels come from the persisted settings and no
\* setter was called
C25_SubtractsEffectiveReference ==
    [][(platform = "linux" /\ nCalls' = nCalls + 1 /\ call'.kind = "run") =>
          LET effective == effectiveReferenceDbfs(platform, options_, deviceType_)
          IN  /\ call'.targetVuL = Dbfs(call'.rmsL_vu) - effective
              /\ call'.targetVuR = Dbfs(call'.rmsR_vu) - effective]_vars

\* a session over settings that hold -6 dBFS for the monitor, started and not
\* touched by a setter, has processed a buffer with the built-in -14 dBFS
C25_PersistedLevelNotUsed ==
    /\ platform = "linux"
    /\ call.kind = "run"
    /\ nOps = 1
    /\ deviceType_ = kDeviceTypeMonitor
    /\ ~options_.referenceDbfsOverride
    /\ effectiveReferenceDbfs(platform, options_, deviceType_) # MonitorDefaultRefDbfs
    /\ call.targetVuL = Dbfs(call.rmsL_vu) - MonitorDefaultRefDbfs

----------------------------------------------------------------------------
(* The reference level getter *)

\* referenceDbfs(): the one level of the options, on both platforms
referenceDbfs(p, o) == o.referenceDbfs

\* C29: referenceDbfs() returns the value most recently passed to
\* setReferenceDbfs, on every platform and for either device type
C29_GetterReturnsValueSet ==
    [][\A value \in ReferenceValues :
          (SetterStep /\ options_' = SetReference(platform, options_, deviceType_, value))
              => referenceDbfs(platform, options_') = value]_vars

\* a linux session on which setReferenceDbfs stored a level for the current
\* device type while referenceDbfs() still returns the constructed level
C29_GetterReturnsConstructedLevel ==
    /\ platform = "linux"
    /\ nOps >= 1
    /\ options_.referenceDbfsOverride
    /\ effectiveReferenceDbfs(platform, options_, deviceType_) \in ReferenceValues
    /\ referenceDbfs(platform, options_) = DefaultOptions.referenceDbfs
    /\ referenceDbfs(platform, options_) \notin ReferenceValues

----------------------------------------------------------------------------
(* A switchDevice that fails *)

\* switchDevice has returned false and the caller has called nothing since
SwitchReturnedFalse == pc = "idle" /\ op.name = "switch" /\ ~op.ok

\* C26: when switchDevice returns false the session is stopped (running flag
\* false, no audio thread, no backend object held), both published readings
\* equal the floor value, and the requested device is the configured device
\* of a later start()
C26_FailedSwitchLeavesStoppedSession ==
    SwitchReturnedFalse =>
        /\ ~running_
        /\ thread_ = "none"
        /\ cb = "idle"
        /\ mainloop_ = FALSE
        /\ context_ = "none"
        /\ stream_ = "none"
        /\ lookups = <<>>
        /\ leftVuDb_ = FloorVu(platform)
        /\ rightVuDb_ = FloorVu(platform)
        /\ options_.deviceName = op.device

\* a switchDevice whose wait for the context timed out while the context
\* became ready: it returned false, the stream the lookup created is still
\* held and a buffer it delivered is in the published readings
C26_FailedSwitchKeepsStreamAndReading ==
    /\ SwitchReturnedFalse
    /\ platform = "linux"
    /\ ~running_
    /\ stream_ = "stale"
    /\ leftVuDb_ # FloorVu(platform)

----------------------------------------------------------------------------
(* The scale mapper's contract *)

\* C13 as stated: 0 for an empty table; for a non-empty table the first
\* control point's angle for every input at or below the first level and the
\* last control point's angle for every input at or above the last level.
C13_ClampsToEnds ==
    angleDeg.kind # "none" =>
        IF table = <<>> THEN angleDeg = Finite(0)
        ELSE /\ vuDb <= table[1][1] => angleDeg = Finite(table[1][2])
             /\ vuDb >= table[Len(table)][1] =>
                    angleDeg = Finite(table[Len(table)][2])

\* C13, amended: 0 for an empty table; for a non-empty table the first
\* control point's angle for every input at or below the first level, and
\* the last control point's angle for every input above the first level and
\* at or above the last level (the first test wins where both apply).
C13_ClampsFirstThenLast ==
    angleDeg.kind # "none" =>
        IF table = <<>> THEN angleDeg = Finite(0)
        ELSE /\ vuDb <= table[1][1] => angleDeg = Finite(table[1][2])
             /\ (vuDb > table[1][1] /\ vuDb >= table[Len(table)][1]) =>
                    angleDeg = Finite(table[Len(table)][2])

\* C13 happens: on a table whose levels are all equal and whose end angles
\* differ, an input equal to that level got the first angle
C13_Witness ==
    /\ angleDeg.kind = "finite"
    /\ Len(table) >= 2
    /\ table[1][1] = table[Len(table)][1]
    /\ table[1][2] # table[Len(table)][2]
    /\ vuDb = table[1][1]
    /\ angleDeg.deg = table[1][2]

\* the table of the spec's example
ExampleTable ==
    <<<<-20, -47 * AngleScale>>, <<0, 18 * AngleScale>>, <<3, 47 * AngleScale>>>>

\* the result is a0 + (vuDb-v0)/(v1-v0)*(a1-a0) on segment i of the table, of
\* non-zero width and holding the input, to the resolution of the model
InterpolatedOn(i) ==
    LET v0 == table[i][1]
        a0 == table[i][2]
        v1 == table[i + 1][1]
        a1 == table[i + 1][2]
    IN  /\ v0 < v1 /\ v0 <= vuDb /\ vuDb <= v1
        /\ angleDeg.kind = "finite"
        /\ (angleDeg.deg - a0) * (v1 - v0) <= (vuDb - v0) * (a1 - a0)
        /\ (vuDb - v0) * (a1 - a0) < (angleDeg.deg - a0 + 1) * (v1 - v0)

\* the values the spec gives for its example table
ExampleValues ==
    table = ExampleTable =>
        /\ vuDb = -30 => angleDeg = Finite(-47 * AngleScale)
        /\ vuDb = 30 => angleDeg = Finite(47 * AngleScale)
        /\ vuDb = 0 => angleDeg = Finite(18 * AngleScale)
        /\ vuDb = -10 => angleDeg = Finite(-145)

\* C14 as stated: for a table sorted ascending by level and an input strictly
\* between the first and the last level the result is the interpolation on a
\* segment that holds the input, an input equal to an interior control
\* point's level returns that point's angle, and the example table gives
\* -47 at -30, 47 at 30, 18 at 0 and -14.5 at -10.
C14_InterpolatesAnyInteriorPoint ==
    angleDeg.kind # "none" =>
        /\ (/\ table # <<>>
            /\ table[1][1] < vuDb /\ vuDb < table[Len(table)][1]) =>
               /\ \E i \in 1..(Len(table) - 1) : InterpolatedOn(i)
               /\ \A k \in 2..(Len(table) - 1) :
                      table[k][1] = vuDb => angleDeg = Finite(table[k][2])
        /\ ExampleValues

\* C14, amended: as stated, but an input equal to the level of interior
\* control points returns the angle of the first control point of that level
\* (that point's angle when the levels are distinct).
C14_Interpolates ==
    angleDeg.kind # "none" =>
        /\ (/\ table # <<>>
            /\ table[1][1] < vuDb /\ vuDb < table[Len(table)][1]) =>
               /\ \E i \in 1..(Len(table) - 1) : InterpolatedOn(i)
               /\ \A k \in 2..(Len(table) - 1) :
                      (/\ table[k][1] = vuDb
                       /\ \A j \in 1..(k - 1) : table[j][1] # vuDb) =>
                          angleDeg = Finite(table[k][2])
        /\ ExampleValues

\* C14 happens: the example table was asked for -10 dB and gave -14.5 degrees,
\* half way between its first two angles
C14_Witness ==
    /\ table = ExampleTable
    /\ vuDb = -10
    /\ angleDeg = Finite(-145)

\* the angles of a table's control points
TableAngles == {table[i][2] : i \in 1..Len(table)}

\* C27: for every table sorted ascending by level, duplicate levels allowed,
\* vuToAngleDeg never divides by the width of a zero-width segment: the result
\* is finite, and for a table with control points it lies between the least
\* and the greatest angle of the table
C27_FiniteWithDuplicateLevels ==
    angleDeg.kind # "none" =>
        /\ angleDeg.kind = "finite"
        /\ table # <<>> =>
              /\ \E a \in TableAngles : a <= angleDeg.deg
              /\ \E a \in TableAngles : angleDeg.deg <= a

\* C27 happens: the input equals a level two interior neighbours share, above
\* the first level, and the answer is finite
C27_Witness ==
    /\ angleDeg.kind = "finite"
    /\ \E k \in 2..(Len(table) - 1) :
          /\ table[k][1] = vuDb
          /\ table[k + 1][1] = vuDb
          /\ table[k][2] # table[k + 1][2]
    /\ table[1][1] < vuDb

\* C30: for the built-in default table vuToAngleDeg is non-decreasing in vuDb,
\* and its result lies between the first angle -47 and the last angle 47
C30_DefaultTableMonotone ==
    (angleDeg.kind # "none" /\ table = builtInDefaultScaleTable) =>
        /\ angleDeg.kind = "finite"
        /\ -47 * AngleScale <= angleDeg.deg
        /\ angleDeg.deg <= 47 * AngleScale
        /\ \A lower \in InputLevels :
              lower <= vuDb => vuToAngleDeg(lower, table).deg <= angleDeg.deg

\* C30 happens: the built-in table was asked for -15 dB, half way between its
\* first two control points, and gave -40.5 degrees
C30_Witness ==
    /\ table = builtInDefaultScaleTable
    /\ vuDb = -15
    /\ angleDeg = Finite(-405)

====
